---- MODULE Spec2Model ----
(***************************************************************************)
(* A model of the weather chatbot's guard pipeline and columnar parser:    *)
(*   - the Input Guard (src/src/web.py): extract_last_user_text and        *)
(*     TopicGuardMiddleware, one ASGI request handled step by step, one    *)
(*     action per await point;                                             *)
(*   - the Output Guard (src/src/agent.py): one turn of the agent with     *)
(*     retries=2 and the output validator validate_weather_topic;          *)
(*   - the columnar parser (src/src/weather_service.py): parse_daily_data, *)
(*     parse_hourly_data and _get_at.                                      *)
(*   - the Open-Meteo client and the agent's tools                         *)
(*     (src/src/weather_service.py, src/src/tools.py).                     *)
(* The specifications of the module: Spec (the middleware, one request),   *)
(* SpecExtract, SpecParse, SpecTools and SpecRefusal (functions applied to *)
(* bounded inputs), SpecTurn (one turn of agent.run), SpecPair (calls of   *)
(* the middleware running at the same time) and SpecTurns (turns one after *)
(* the other).  Each leaves the variables of the others at their idle      *)
(* values.                                                                 *)
(***************************************************************************)
EXTENDS Integers, Sequences, FiniteSets, TLC

VARIABLES
    \* ---- pure-function specifications ----
    fn,          \* the function that has been applied ("none" before)
    arg,         \* its input
    ret,         \* its outcome: a Return(..) or a Raise(..)
    http,        \* the requests it gave to the HTTP client, in order
    \* ---- TopicGuardMiddleware, one request ----
    pc,          \* position of the handler
    scope,       \* the ASGI scope of the request
    inbox,       \* messages the server's receive() has still to deliver
    received,    \* messages the middleware itself got from receive(), in order
    body,        \* _handle_chat's local `body`
    user_text,   \* _handle_chat's local `user_text`
    guard,       \* the input guard's classifier calls: prompts and outcomes
    body_sent,   \* replay_receive's nonlocal flag
    response_body, \* _send_refusal's local `response_body`
    wire,        \* every message given to send(), in order, with its sender
    app,         \* invocations of the inner application
    appReads,    \* what the inner application got from its receive callable
    logged,      \* number of logger.exception calls
    exc,         \* exception that left __call__ ("none" if none)
    \* ---- Output Guard, one turn of agent.run ----
    tpc,         \* Drafting / Classifying / Approved / Exhausted / Failed,
                 \* and "tool_exhausted": a tool ran out of retries
    retries,     \* the run's consumed output retries
    drafts,      \* candidate texts the Responder has emitted, in order
    verdicts,    \* the classifier's outcome for each classified draft
    feedback,    \* the corrective feedback given to the Responder so far
    result,      \* what agent.run gives the caller
    tool_retries,     \* the run context's retries: per tool, its failures in a row
    tool_corrections, \* retry prompts the turn has given for failed tool calls
    last_call,   \* the latest tool call: its arguments, what the remote source
                 \* was going to do, its retry count, outcome and requests,
                 \* and the places known when it was made
    resolved,    \* names of the places geocoding has returned in this turn
    \* ---- what one process holds beyond a single request or turn ----
    calls,       \* the calls of the middleware that run at the same time:
                 \* each call's position and locals, and the cells of `body`
    ended        \* how the turns before the current one ended, in order

pureVars  == <<fn, arg, ret, http>>
guardVars == <<pc, scope, inbox, received, body, user_text, guard, body_sent,
               response_body, wire, app, appReads, logged, exc>>
toolVars  == <<tool_retries, tool_corrections, last_call, resolved>>
procVars  == <<calls, ended>>
turnVars  == <<tpc, retries, drafts, verdicts, feedback, result,
               tool_retries, tool_corrections, last_call, resolved>>
vars      == <<fn, arg, ret, http, pc, scope, inbox, received, body, user_text, guard,
               body_sent, response_body, wire, app, appReads, logged, exc, tpc, retries, drafts,
               verdicts, feedback, result, tool_retries, tool_corrections, last_call,
               resolved, calls, ended>>

(***************************************************************************)
(* Bounds of the model.                                                    *)
(***************************************************************************)
MaxMsgs   == 2   \* messages in a generated conversation
MaxParts  == 2   \* parts in a generated user message
MaxChunks == 2   \* http.request messages a request body arrives in
MaxReads  == 3   \* reads the inner application performs on its receive
MaxLen    == 2   \* length of the time array given to the parser
MaxCorrections == 3   \* retry prompts for failed tool calls in one turn

(***************************************************************************)
(* Python values.  A JSON value is a tagged record; None is JSON null.     *)
(***************************************************************************)
JNull     == [t |-> "null"]
JNum(n)   == [t |-> "num", n |-> n]
JStr(s)   == [t |-> "str", s |-> s]
JArr(a)   == [t |-> "arr", a |-> a]
JObj(o)   == [t |-> "obj", o |-> o]
None      == JNull

\* The outcome of a call: a returned value or a raised exception.
Return(v) == [k |-> "return", v |-> v,    e |-> "-"]
Raise(e)  == [k |-> "raise",  v |-> None, e |-> e]
\* A call that has not finished.
Pending   == [k |-> "pending", v |-> None, e |-> "-"]
\* A for-loop that ran to its end without returning.
Fallthrough == [k |-> "fallthrough", v |-> None, e |-> "-"]

\* bool(v), as `if user_text:` and `if not dates:` evaluate it.
Truthy(v) ==
    CASE v.t = "null" -> FALSE
      [] v.t = "num"  -> v.n # 0
      [] v.t = "str"  -> v.s # ""
      [] v.t = "arr"  -> v.a # <<>>
      [] v.t = "obj"  -> DOMAIN v.o # {}

\* d.get(key, default) on a dict d.
get(d, key, default) == IF key \in DOMAIN d.o THEN d.o[key] ELSE default

\* Only a dict has .get: on a list, str, number or None the attribute lookup
\* raises AttributeError.
HasGet(v) == v.t = "obj"

\* iter(v) / reversed(v) succeed on a list, a dict (its keys) and a str (its
\* characters); on None or a number they raise TypeError.
Iterable(v) == v.t \in {"arr", "obj", "str"}

RECURSIVE SetToSeq(_)
SetToSeq(S) == IF S = {} THEN <<>>
               ELSE LET x == CHOOSE x \in S : TRUE IN <<x>> \o SetToSeq(S \ {x})

\* The items an iteration over v yields.  A dict yields its keys and a str its
\* characters; both are str objects (a character is kept as the str "?").
Items(v) ==
    CASE v.t = "arr" -> v.a
      [] v.t = "obj" -> [i \in 1..Cardinality(DOMAIN v.o) |->
                            JStr(SetToSeq(DOMAIN v.o)[i])]
      [] v.t = "str" -> [i \in 1..Len(v.s) |-> JStr("?")]

(***************************************************************************)
(* Request bodies on the wire.  A text is what the client serialised: a    *)
(* JSON document, bytes that are not JSON, or bytes that are not UTF-8.    *)
(* Its bytes travel as k pieces; a bytes value is a sequence of pieces and *)
(* b"" is <<>>.                                                            *)
(***************************************************************************)
JsonText(v) == [enc |-> "json",    v |-> v]
NotJson     == [enc |-> "notjson", v |-> None]
NotUtf8     == [enc |-> "notutf8", v |-> None]

Encode(text, k) == [i \in 1..k |-> [src |-> text, i |-> i, k |-> k]]

\* The bytes are exactly the pieces 1..k of one text, in order.
WholeText(bytes) ==
    /\ bytes # <<>>
    /\ Len(bytes) = bytes[1].k
    /\ \A j \in 1..Len(bytes) : bytes[j].src = bytes[1].src /\ bytes[j].i = j
                                /\ bytes[j].k = bytes[1].k

\* json.loads(bytes): decoding comes first (UnicodeDecodeError, a ValueError
\* that is not a JSONDecodeError), then parsing (JSONDecodeError on anything
\* that is not one complete JSON document, b"" included).
json_loads(bytes) ==
    IF \E j \in 1..Len(bytes) : bytes[j].src.enc = "notutf8"
    THEN Raise("UnicodeDecodeError")
    ELSE IF WholeText(bytes) /\ bytes[1].src.enc = "json"
    THEN Return(bytes[1].src.v)
    ELSE Raise("JSONDecodeError")

(***************************************************************************)
(* extract_last_user_text (src/src/web.py:27-38).                          *)
(***************************************************************************)
\* `for part in msg.get("parts", [])`, from the j-th part on.
RECURSIVE scan_parts(_, _)
scan_parts(parts, j) ==
    IF j > Len(parts) THEN Fallthrough
    ELSE LET part == parts[j] IN
         IF ~HasGet(part) THEN Raise("AttributeError")
         ELSE IF get(part, "type", None) = JStr("text")
         THEN Return(get(part, "text", JStr("")))
         ELSE scan_parts(parts, j + 1)

\* `for msg in reversed(messages)`, from the i-th message down to the first.
RECURSIVE scan_msgs(_, _)
scan_msgs(msgs, i) ==
    IF i = 0 THEN Return(None)
    ELSE LET msg == msgs[i] IN
         IF ~HasGet(msg) THEN Raise("AttributeError")
         ELSE IF get(msg, "role", None) # JStr("user") THEN scan_msgs(msgs, i - 1)
         ELSE LET parts == get(msg, "parts", JArr(<<>>)) IN
              IF ~Iterable(parts) THEN Raise("TypeError")
              ELSE LET r == scan_parts(Items(parts), 1) IN
                   IF r.k = "fallthrough" THEN scan_msgs(msgs, i - 1) ELSE r

\* The body of the try block.
extract_try(bytes) ==
    LET p == json_loads(bytes) IN
    IF p.k = "raise" THEN p
    ELSE IF ~HasGet(p.v) THEN Raise("AttributeError")
    ELSE LET messages == get(p.v, "messages", JArr(<<>>)) IN
         IF ~Iterable(messages) THEN Raise("TypeError")
         ELSE scan_msgs(Items(messages), Len(Items(messages)))

\* except (json.JSONDecodeError, KeyError, TypeError): return None
ExtractCaught == {"JSONDecodeError", "KeyError", "TypeError"}

extract_last_user_text(bytes) ==
    LET r == extract_try(bytes) IN
    IF r.k = "raise" /\ r.e \in ExtractCaught THEN Return(None) ELSE r

(***************************************************************************)
(* Inputs.  Conversations are generated from the bounds; the malformed     *)
(* bodies are listed one by one.                                           *)
(***************************************************************************)
SeqsUpTo(S, n) == UNION {[1..m -> S] : m \in 0..n}

PText(s)         == JObj([type |-> JStr("text"), text |-> JStr(s)])
PFile            == JObj([type |-> JStr("file")])
Msg(role, parts) == JObj([role |-> JStr(role), parts |-> JArr(parts)])
ChatRequest(msgs) == JsonText(JObj([messages |-> JArr(msgs)]))

PartLists     == SeqsUpTo({PText("rain"), PText("joke"), PFile}, MaxParts)
Messages      == {Msg("user", ps) : ps \in PartLists}
                   \cup {Msg("assistant", <<PText("reply")>>)}
Conversations == SeqsUpTo(Messages, MaxMsgs)

\* Bodies from which the chat protocol's shape is missing somewhere.
MalformedTexts ==
    { NotJson,                                      \* b"not json"
      NotUtf8,                                      \* b"\xff"
      JsonText(JArr(<<>>)),                         \* []
      JsonText(JNull),                              \* null
      JsonText(JNum(5)),                            \* 5
      JsonText(JStr("s")),                          \* "s"
      JsonText(JObj(<<>>)),                         \* {}
      JsonText(JObj([messages |-> JNull])),         \* {"messages": null}
      JsonText(JObj([messages |-> JObj([a |-> JNum(1)])])),
      ChatRequest(<<JStr("x")>>),                   \* a message that is a str
      ChatRequest(<<JNull>>),                       \* a message that is null
      ChatRequest(<<JObj([role |-> JStr("user"), parts |-> JNull])>>),
      ChatRequest(<<JObj([role |-> JStr("user")])>>),
      ChatRequest(<<Msg("user", <<JStr("x")>>)>>),  \* a part that is a str
      ChatRequest(<<Msg("user", <<JObj([type |-> JStr("text")])>>)>>),
      ChatRequest(<<Msg("user", <<PText("")>>)>>),
      ChatRequest(<<Msg("user", <<JObj([type |-> JStr("text"), text |-> JNull])>>)>>) }

ExtractInputs ==
    {Encode(ChatRequest(m), 1) : m \in Conversations}
        \cup {Encode(t, 1) : t \in MalformedTexts} \cup {<<>>}

(***************************************************************************)
(* Idle values of the parts a specification does not use.                  *)
(***************************************************************************)
NoScope == [type |-> "-", method |-> "-", path |-> "-"]

ProcIdle  == calls = <<>> /\ ended = <<>>
PureIdle  == fn = "none" /\ arg = <<>> /\ ret = Return(None) /\ http = <<>>
GuardIdle == /\ pc = "off" /\ scope = NoScope /\ inbox = <<>> /\ received = <<>>
             /\ body = <<>> /\ user_text = Return(None) /\ guard = <<>>
             /\ body_sent = FALSE /\ response_body = <<>> /\ wire = <<>> /\ app = <<>> /\ appReads = <<>>
             /\ logged = 0 /\ exc = "none"
\* The tools registered on the agent; no failures; no call yet.
ToolNames == {"get_location_coordinates", "get_weather_forecast",
              "get_historical_weather_data"}
NoRetries == [t \in ToolNames |-> 0]
NoCall    == [tool |-> "-", args |-> <<>>, remote |-> [kind |-> "-"], retry |-> 0,
              out |-> Pending, sent |-> <<>>, known |-> {}]
ToolsIdle == /\ tool_retries = NoRetries /\ tool_corrections = 0
             /\ last_call = NoCall /\ resolved = {}
TurnIdle  == /\ tpc = "off" /\ retries = 0 /\ drafts = <<>> /\ verdicts = <<>>
             /\ feedback = <<>> /\ result = Pending /\ ToolsIdle

(***************************************************************************)
(* SpecExtract: extract_last_user_text applied to every bounded input.     *)
(***************************************************************************)
InitExtract ==
    /\ fn = "none" /\ arg \in ExtractInputs /\ ret = Return(None) /\ http = <<>>
    /\ GuardIdle /\ TurnIdle /\ ProcIdle

ApplyExtract ==
    /\ fn = "none"
    /\ fn' = "extract_last_user_text"
    /\ ret' = extract_last_user_text(arg)
    /\ UNCHANGED <<arg, http, guardVars, turnVars, procVars>>

NextExtract == ApplyExtract
SpecExtract == InitExtract /\ [][NextExtract]_vars

(***************************************************************************)
(* Reference definitions for the claims about extraction: what the chat    *)
(* protocol calls the last user message and its text parts.                *)
(***************************************************************************)
ConversationBodies == {Encode(ChatRequest(m), 1) : m \in Conversations}
ConvOf(bytes)      == bytes[1].src.v.o.messages.a
UserIdx(msgs)      == {i \in 1..Len(msgs) : msgs[i].o.role = JStr("user")}
LastUser(msgs)     == msgs[CHOOSE i \in UserIdx(msgs) : \A j \in UserIdx(msgs) : j <= i]
IsTextPart(p)      == p.o.type = JStr("text")
TextParts(msg)     == SelectSeq(msg.o.parts.a, IsTextPart)

RECURSIVE JoinTexts(_)
JoinTexts(parts) == IF parts = <<>> THEN ""
                    ELSE Head(parts).o.text.s \o JoinTexts(Tail(parts))

\* C8 (as claimed): extract_last_user_text returns text taken from the most
\* recent message tagged role=user only: what it returns is None or the text of
\* a part of that message, never text of an earlier user message or of a
\* non-user message, also when the most recent user message has no text part.
C8_MostRecentUserOnly ==
    (fn = "extract_last_user_text" /\ arg \in ConversationBodies) =>
        /\ ret.k = "return"
        /\ \/ ret.v = None
           \/ /\ UserIdx(ConvOf(arg)) # {}
              /\ \E j \in 1..Len(TextParts(LastUser(ConvOf(arg)))) :
                    TextParts(LastUser(ConvOf(arg)))[j].o.text = ret.v

\* C9 (as claimed): when the most recent user message has several parts of type
\* text, the extracted text is the concatenation of all those fragments in
\* source order, non-text parts being ignored.
C9_ConcatenatesTextParts ==
    ( /\ fn = "extract_last_user_text" /\ arg \in ConversationBodies
      /\ UserIdx(ConvOf(arg)) # {}
      /\ Len(TextParts(LastUser(ConvOf(arg)))) >= 2 ) =>
        ret = Return(JStr(JoinTexts(TextParts(LastUser(ConvOf(arg))))))

(***************************************************************************)
(* The refusal response (src/src/web.py:14-24, 41-54, 109-113).            *)
(***************************************************************************)
REFUSAL_MESSAGE ==
    "I'm a weather and climate assistant, so I can only help with weather-related questions. "
    \o "Try asking me about forecasts, temperature, historical climate data, or atmospheric "
    \o "conditions for any location worldwide!"

_SSE_HEADERS == << <<"content-type", "text/event-stream">>,
                   <<"x-vercel-ai-ui-message-stream", "v1">> >>

\* Values uuid4() may return.
Uuids == {"uuid-a", "uuid-b"}

\* An event that json.dumps or a JSON literal wrote, and the bare sentinel.
JsonEvent(o) == JsonText(JObj(o))
RawEvent(s)  == [enc |-> "raw", v |-> JStr(s)]
\* f"data: {e}\n\n"
Frame(e) == [prefix |-> "data: ", event |-> e, suffix |-> "\n\n"]

\* The same events with the text cut in two text-delta events.
build_refusal_sse_two_deltas(text, msg_id) ==
    LET events == <<
            JsonEvent([type |-> JStr("start")]),
            JsonEvent([type |-> JStr("start-step")]),
            JsonEvent([type |-> JStr("text-start"), id |-> JStr(msg_id)]),
            JsonEvent([type |-> JStr("text-delta"), id |-> JStr(msg_id),
                       delta |-> JStr(text)]),
            JsonEvent([type |-> JStr("text-delta"), id |-> JStr(msg_id),
                       delta |-> JStr("")]),
            JsonEvent([type |-> JStr("text-end"), id |-> JStr(msg_id)]),
            JsonEvent([type |-> JStr("finish-step")]),
            JsonEvent([type |-> JStr("finish"), finishReason |-> JStr("stop")]),
            RawEvent("[DONE]") >>
    IN [i \in 1..Len(events) |-> Frame(events[i])]

build_refusal_sse(text, msg_id) ==
    LET events == <<
            JsonEvent([type |-> JStr("start")]),
            JsonEvent([type |-> JStr("start-step")]),
            JsonEvent([type |-> JStr("text-start"), id |-> JStr(msg_id)]),
            JsonEvent([type |-> JStr("text-delta"), id |-> JStr(msg_id),
                       delta |-> JStr(text)]),
            JsonEvent([type |-> JStr("text-end"), id |-> JStr(msg_id)]),
            JsonEvent([type |-> JStr("finish-step")]),
            JsonEvent([type |-> JStr("finish"), finishReason |-> JStr("stop")]),
            RawEvent("[DONE]") >>
    IN [i \in 1..Len(events) |-> Frame(events[i])]

ResponseStart(status, headers) ==
    [type |-> "http.response.start", status |-> status, headers |-> headers]
ResponseBody(bytes) == [type |-> "http.response.body", body |-> bytes]

(***************************************************************************)
(* The ASGI request channel.                                               *)
(***************************************************************************)
HttpRequest(bytes, more) ==
    [type |-> "http.request", body |-> bytes, more_body |-> more]
HttpDisconnect == [type |-> "http.disconnect"]

\* message.get("body", b"") and message.get("more_body", False)
MsgBody(m) == IF "body" \in DOMAIN m THEN m.body ELSE <<>>
MoreBody(m) == IF "more_body" \in DOMAIN m THEN m.more_body ELSE FALSE

\* What the server delivers for a body sent in k pieces when the client goes
\* away after `cut` of them: the pieces, the last one with more_body false, or
\* the first `cut` pieces and then http.disconnect.
Stream(text, k, cut) ==
    [i \in 1..cut |-> HttpRequest(<<Encode(text, k)[i]>>, i < k)]
        \o (IF cut < k THEN <<HttpDisconnect>> ELSE <<>>)

\* The server's receive(): the next message; once the request is over the only
\* message left to come is http.disconnect.
ReceiveMsg  == IF inbox = <<>> THEN HttpDisconnect ELSE Head(inbox)
ReceiveRest == IF inbox = <<>> THEN <<>> ELSE Tail(inbox)

\* Request bodies given to the middleware.
RequestTexts ==
    MalformedTexts \cup
    { ChatRequest(<<>>),
      ChatRequest(<<Msg("assistant", <<PText("reply")>>)>>),
      ChatRequest(<<Msg("user", <<PText("rain")>>)>>),
      ChatRequest(<<Msg("user", <<PText("rain")>>),
                    Msg("assistant", <<PText("reply")>>),
                    Msg("user", <<PText("joke")>>)>>),
      ChatRequest(<<Msg("user", <<PText("rain")>>), Msg("user", <<PFile>>)>>),
      ChatRequest(<<Msg("user", <<PFile, PText("rain"), PText("joke")>>)>>) }

Scopes ==
    [type : {"http"}, method : {"POST", "GET"}, path : {"/api/chat", "/other"}]
        \cup {[type |-> "websocket", method |-> "-", path |-> "/api/chat"],
              [type |-> "lifespan"]}

(***************************************************************************)
(* TopicGuardMiddleware (src/src/web.py:57-113), one request.              *)
(***************************************************************************)
Init ==
    /\ PureIdle /\ TurnIdle /\ ProcIdle
    /\ pc = "call"
    /\ scope \in Scopes
    /\ \E text \in RequestTexts : \E k \in 1..MaxChunks : \E cut \in 0..k :
           inbox = Stream(text, k, cut)
    /\ received = <<>> /\ body = <<>> /\ user_text = Return(None)
    /\ guard = <<>> /\ body_sent = FALSE /\ response_body = <<>>
    /\ wire = <<>> /\ app = <<>> /\ appReads = <<>> /\ logged = 0 /\ exc = "none"

\* The condition without its test of the method.
Intercepted_any_method(sc) == sc.type = "http" /\ sc.path = "/api/chat"

\* The condition of __call__.
Intercepted(sc) ==
    sc.type = "http" /\ sc.method = "POST" /\ sc.path = "/api/chat"

\* await self.app(scope, <receive>, send)
InvokeApp(rcv) == app' = Append(app, [scope |-> scope, receive |-> rcv, send |-> "send"])

PassThrough_without_replay ==
    /\ body_sent' = FALSE
    /\ InvokeApp("receive")
    /\ pc' = "app"

\* Lines 97-107: body_sent = False, then the inner app is awaited with
\* replay_receive in place of receive.
PassThrough ==
    /\ body_sent' = FALSE
    /\ InvokeApp("replay_receive")
    /\ pc' = "app"

\* __call__: the chat endpoint goes to _handle_chat, anything else straight on.
Call ==
    /\ pc = "call"
    /\ IF Intercepted(scope)
       THEN pc' = "buffering" /\ UNCHANGED app
       ELSE pc' = "app" /\ InvokeApp("receive")
    /\ UNCHANGED <<scope, inbox, received, body, user_text, guard, body_sent,
                   response_body, wire, appReads, logged, exc>>
    /\ UNCHANGED <<pureVars, turnVars, procVars>>

\* body += message.get("body", b"")
buffer(b, message) == b \o MsgBody(message)

\* f"Is this user question about weather, climate, or atmospheric conditions?\n\n{user_text}"
GuardPrompt(text) ==
    [question |-> "Is this user question about weather, climate, or atmospheric conditions?\n\n",
     text |-> text]

\* One turn of the buffering loop and, when the loop ends, everything up to the
\* next await: the extraction and the branch on user_text.
BufferChunk ==
    /\ pc = "buffering"
    /\ LET message == ReceiveMsg
           b       == buffer(body, message)
           ut      == extract_last_user_text(b)
       IN /\ inbox' = ReceiveRest
          /\ received' = Append(received, message)
          /\ body' = b
          /\ IF MoreBody(message)
             THEN /\ pc' = "buffering"
                  /\ UNCHANGED <<user_text, guard, body_sent, app, exc>>
             ELSE /\ user_text' = ut
                  /\ IF ut.k = "raise"
                     THEN /\ pc' = "raised" /\ exc' = ut.e
                          /\ UNCHANGED <<guard, body_sent, app>>
                     ELSE IF Truthy(ut.v)
                     THEN /\ pc' = "guard"
                          /\ guard' = Append(guard, [prompt |-> GuardPrompt(ut.v),
                                                     outcome |-> "pending"])
                          /\ UNCHANGED <<body_sent, app, exc>>
                     ELSE /\ PassThrough
                          /\ UNCHANGED <<guard, exc>>
    /\ UNCHANGED <<scope, response_body, wire, appReads, logged>>
    /\ UNCHANGED <<pureVars, turnVars, procVars>>

GuardOutcome(o) == guard' = [guard EXCEPT ![Len(guard)].outcome = o]

\* guard_agent.run returns a verdict with is_weather_related true.
GuardOnTopic ==
    /\ pc = "guard"
    /\ GuardOutcome("on-topic")
    /\ PassThrough
    /\ UNCHANGED <<scope, inbox, received, body, user_text, response_body, wire,
                   appReads, logged, exc>>
    /\ UNCHANGED <<pureVars, turnVars, procVars>>

\* guard_agent.run returns a verdict with is_weather_related false:
\* _send_refusal builds the response and awaits the first send.
GuardOffTopic ==
    /\ pc = "guard"
    /\ GuardOutcome("off-topic")
    /\ \E id \in Uuids : response_body' = build_refusal_sse(REFUSAL_MESSAGE, id)
    /\ pc' = "send_start"
    /\ UNCHANGED <<scope, inbox, received, body, user_text, body_sent, wire, app,
                   appReads, logged, exc>>
    /\ UNCHANGED <<pureVars, turnVars, procVars>>

\* except Exception: logger.exception(...), then on to the pass-through.
CaughtAndPassedThrough ==
    /\ logged' = logged + 1
    /\ PassThrough

GuardFails_closed ==
    /\ pc = "guard"
    /\ GuardOutcome("raised")
    /\ logged' = logged + 1
    /\ \E id \in Uuids : response_body' = build_refusal_sse(REFUSAL_MESSAGE, id)
    /\ pc' = "send_start"
    /\ UNCHANGED <<scope, inbox, received, body, user_text, body_sent, wire, app,
                   appReads, exc>>
    /\ UNCHANGED <<pureVars, turnVars, procVars>>

\* The failure answered by asking the classifier once more.
GuardFails_retried ==
    /\ pc = "guard"
    /\ Len(guard) < 3
    /\ guard' = Append([guard EXCEPT ![Len(guard)].outcome = "raised"],
                       [prompt |-> guard[Len(guard)].prompt, outcome |-> "pending"])
    /\ logged' = logged + 1
    /\ UNCHANGED <<pc, scope, inbox, received, body, user_text, body_sent, response_body,
                   wire, app, appReads, exc>>
    /\ UNCHANGED <<pureVars, turnVars, procVars>>

\* guard_agent.run raises (transport error, invalid classifier output, ...).
GuardFails ==
    /\ pc = "guard"
    /\ GuardOutcome("raised")
    /\ CaughtAndPassedThrough
    /\ UNCHANGED <<scope, inbox, received, body, user_text, response_body, wire,
                   appReads, exc>>
    /\ UNCHANGED <<pureVars, turnVars, procVars>>

Sent(by, msg) == wire' = Append(wire, [by |-> by, msg |-> msg])

\* await send({"type": "http.response.start", ...}) succeeds.
SendRefusalStart ==
    /\ pc = "send_start"
    /\ Sent("middleware", ResponseStart(200, _SSE_HEADERS))
    /\ pc' = "send_body"
    /\ UNCHANGED <<scope, inbox, received, body, user_text, guard, body_sent,
                   response_body, app, appReads, logged, exc>>
    /\ UNCHANGED <<pureVars, turnVars, procVars>>

\* await send({"type": "http.response.body", ...}) succeeds; _handle_chat returns.
SendRefusalBody ==
    /\ pc = "send_body"
    /\ Sent("middleware", ResponseBody(response_body))
    /\ pc' = "done"
    /\ UNCHANGED <<scope, inbox, received, body, user_text, guard, body_sent,
                   response_body, app, appReads, logged, exc>>
    /\ UNCHANGED <<pureVars, turnVars, procVars>>

\* A send of the refusal raises (the client has gone away): the call is inside
\* the try block, so the handler of the classifier's failures catches it.
SendRefusalFails ==
    /\ pc \in {"send_start", "send_body"}
    /\ CaughtAndPassedThrough
    /\ UNCHANGED <<scope, inbox, received, body, user_text, guard, response_body,
                   wire, appReads, exc>>
    /\ UNCHANGED <<pureVars, turnVars, procVars>>

\* A result of a read by the inner application: the message it gets, and the
\* flag and the channel afterwards.
replay_receive_again ==
    [msg |-> HttpRequest(body, FALSE), body_sent |-> body_sent, inbox |-> inbox]

replay_receive ==
    IF ~body_sent
    THEN [msg |-> HttpRequest(body, FALSE), body_sent |-> TRUE, inbox |-> inbox]
    ELSE [msg |-> ReceiveMsg, body_sent |-> body_sent, inbox |-> ReceiveRest]

receive == [msg |-> ReceiveMsg, body_sent |-> body_sent, inbox |-> ReceiveRest]

\* The inner application awaits the receive callable it was given.
AppReceive ==
    /\ pc = "app"
    /\ Len(appReads) < MaxReads
    /\ LET r == IF app[Len(app)].receive = "replay_receive"
                THEN replay_receive ELSE receive
       IN /\ appReads' = Append(appReads, r.msg)
          /\ body_sent' = r.body_sent
          /\ inbox' = r.inbox
    /\ UNCHANGED <<pc, scope, received, body, user_text, guard, response_body,
                   wire, app, logged, exc>>
    /\ UNCHANGED <<pureVars, turnVars, procVars>>

AppHasResponded == \E i \in 1..Len(wire) : wire[i].by = "app"

\* The inner application starts its own response through send.
AppResponds ==
    /\ pc = "app"
    /\ ~AppHasResponded
    /\ Sent("app", ResponseStart(200, <<>>))
    /\ UNCHANGED <<pc, scope, inbox, received, body, user_text, guard, body_sent,
                   response_body, app, appReads, logged, exc>>
    /\ UNCHANGED <<pureVars, turnVars, procVars>>

\* The inner application returns, and with it _handle_chat and __call__.
AppReturns ==
    /\ pc = "app"
    /\ pc' = "done"
    /\ UNCHANGED <<scope, inbox, received, body, user_text, guard, body_sent,
                   response_body, wire, app, appReads, logged, exc>>
    /\ UNCHANGED <<pureVars, turnVars, procVars>>

Next ==
    \/ Call
    \/ BufferChunk
    \/ GuardOnTopic
    \/ GuardOffTopic
    \/ GuardFails
    \/ SendRefusalStart
    \/ SendRefusalBody
    \/ SendRefusalFails
    \/ AppReceive
    \/ AppResponds
    \/ AppReturns

Spec == Init /\ [][Next]_vars

(***************************************************************************)
(* Reference definitions for the claims about the middleware.              *)
(***************************************************************************)
LastOutcome == IF guard = <<>> THEN "none" ELSE guard[Len(guard)].outcome
IsFromMiddleware(w) == w.by = "middleware"
MwSent == SelectSeq(wire, IsFromMiddleware)

\* The chunks of a sequence of received messages, concatenated in order.
RECURSIVE ConcatBodies(_)
ConcatBodies(msgs) ==
    IF msgs = <<>> THEN <<>> ELSE MsgBody(Head(msgs)) \o ConcatBodies(Tail(msgs))

\* The one invocation a pass-through makes: same scope, same send, the replay
\* channel in place of receive.
PassedThrough ==
    app = <<[scope |-> scope, receive |-> "replay_receive", send |-> "send"]>>

\* A user message of the body carries a non-empty text part.
IsUserMsg(m) == m.t = "obj" /\ "role" \in DOMAIN m.o /\ m.o.role = JStr("user")
IsFilledTextPart(q) ==
    /\ q.t = "obj" /\ "type" \in DOMAIN q.o /\ q.o.type = JStr("text")
    /\ "text" \in DOMAIN q.o /\ q.o.text.t = "str" /\ q.o.text.s # ""
HasUserText(bytes) ==
    LET d == json_loads(bytes) IN
    /\ d.k = "return" /\ d.v.t = "obj" /\ "messages" \in DOMAIN d.v.o
    /\ d.v.o.messages.t = "arr"
    /\ \E i \in 1..Len(d.v.o.messages.a) :
          LET m == d.v.o.messages.a[i] IN
          /\ IsUserMsg(m) /\ "parts" \in DOMAIN m.o /\ m.o.parts.t = "arr"
          /\ \E j \in 1..Len(m.o.parts.a) : IsFilledTextPart(m.o.parts.a[j])

\* C1 (as claimed): once the classifier has judged the last user message
\* off-topic the inner application is never invoked for the request, and the
\* finished request has sent exactly one response start with status 200
\* followed by one body holding the refusal event stream of REFUSAL_MESSAGE.
C1_OffTopicShortCircuits ==
    LastOutcome = "off-topic" =>
        /\ app = <<>>
        /\ pc = "done" =>
             /\ Len(wire) = 2
             /\ wire[1] = [by |-> "middleware", msg |-> ResponseStart(200, _SSE_HEADERS)]
             /\ \E id \in Uuids : wire[2] =
                  [by |-> "middleware",
                   msg |-> ResponseBody(build_refusal_sse(REFUSAL_MESSAGE, id))]

\* C4: when the input guard's classifier call raises, the request is not
\* refused: the failure is logged, the middleware itself sends nothing, and the
\* inner application is invoked and reads the original body.
C4_ClassifierFailureFailsOpen ==
    LastOutcome = "raised" =>
        /\ pc \in {"app", "done"}
        /\ logged = 1
        /\ MwSent = <<>>
        /\ PassedThrough
        /\ appReads # <<>> => appReads[1] = HttpRequest(ConcatBodies(received), FALSE)

C4_Witness ==
    /\ LastOutcome = "raised" /\ Len(received) = 2 /\ Len(appReads) >= 1
    /\ pc = "done"

\* C5 (as claimed): for every request body from which no user text can be
\* extracted the Input Guard does not raise and does not refuse: it passes the
\* request through to the inner application without calling the classifier.
C5_NoTextPassesThrough ==
    (Intercepted(scope) /\ pc \notin {"call", "buffering"} /\ ~HasUserText(body)) =>
        /\ exc = "none"
        /\ guard = <<>>
        /\ MwSent = <<>>
        /\ PassedThrough

\* C6: when the last user message is classified on-topic the inner application
\* is invoked with the same scope and send, and the body it reads is the
\* concatenation, in arrival order, of the chunks the middleware received.
C6_OnTopicPassesBodyUnmodified ==
    LastOutcome = "on-topic" =>
        /\ PassedThrough
        /\ MwSent = <<>>
        /\ appReads # <<>> => MsgBody(appReads[1]) = ConcatBodies(received)

C6_Witness ==
    /\ LastOutcome = "on-topic" /\ Len(received) = 2
    /\ appReads # <<>> /\ Len(MsgBody(appReads[1])) = 2

\* C7: on pass-through the first read of the inner stage returns the whole
\* buffered body with more_body false, and no later read returns the body or
\* any part of it again.
C7_ReplayExactlyOnce ==
    (app # <<>> /\ app[1].receive = "replay_receive") =>
        /\ appReads # <<>> => appReads[1] = HttpRequest(body, FALSE)
        /\ \A j \in 2..Len(appReads) : MsgBody(appReads[j]) = <<>>

C7_Witness ==
    /\ app # <<>> /\ app[1].receive = "replay_receive"
    /\ body # <<>> /\ Len(appReads) = 3

(***************************************************************************)
(* The Output Guard (src/src/agent.py:49-53, 83-93): one turn of agent.run. *)
(* The Responder and the classifier are opaque: the drafts and the         *)
(* verdicts are chosen freely.                                             *)
(***************************************************************************)
\* Agent(model, deps_type=WeatherDeps, retries=2, ...)
agent_retries_one_more == 2 + 1
agent_retries == 2

DraftTexts == {"It will rain in Oslo.", "Paris is the capital of France.",
               "I can only help with weather questions."}
Reasons    == {"it is about geography", "it follows a role change"}
TopicCheck == [is_weather_related : BOOLEAN, reason : Reasons]

\* f"Is this response about weather/climate?\n\n{data}"
OutputPrompt(data) ==
    [question |-> "Is this response about weather/climate?\n\n", text |-> data]

\* raise ModelRetry(message)
ModelRetry(message) == [k |-> "raise", v |-> JStr(message), e |-> "ModelRetry"]

validate_weather_topic_lenient(data, check) == Return(JStr(data))

\* The validator with a retry message that leaves the classifier's reason out.
validate_weather_topic_no_reason(data, check) ==
    IF check.is_weather_related
    THEN Return(JStr(data))
    ELSE ModelRetry("Your response is off-topic. "
             \o "You must only answer weather and climate questions.")

\* validate_weather_topic, given the classifier's verdict on `data`.
validate_weather_topic(data, check) ==
    IF check.is_weather_related
    THEN Return(JStr(data))
    ELSE ModelRetry("Your response is off-topic (" \o check.reason \o "). "
             \o "You must only answer weather and climate questions. "
             \o "If the user asked about something else, politely decline and "
             \o "suggest a weather question.")

InitTurn ==
    /\ PureIdle /\ GuardIdle /\ ProcIdle
    /\ tpc = "drafting" /\ retries = 0 /\ drafts = <<>> /\ verdicts = <<>>
    /\ feedback = <<>> /\ result = Pending /\ ToolsIdle

\* The Responder emits a candidate text; the output validator is called with
\* it and awaits guard_agent.run.  No tool has failed in this step: the run
\* context of the next step starts without tool retries.
Draft ==
    /\ tpc = "drafting"
    /\ \E text \in DraftTexts : drafts' = Append(drafts, text)
    /\ tpc' = "classifying"
    /\ tool_retries' = NoRetries
    /\ UNCHANGED <<retries, verdicts, feedback, result>>
    /\ UNCHANGED <<tool_corrections, last_call, resolved>>
    /\ UNCHANGED <<pureVars, guardVars, procVars>>

\* guard_agent.run returns a verdict; the validator returns the text, which
\* ends the run, or raises ModelRetry, which costs one output retry: beyond
\* the agent's retries the run ends in UnexpectedModelBehavior, otherwise the
\* message goes back to the Responder as a retry prompt.
Classify ==
    /\ tpc = "classifying"
    /\ \E check \in TopicCheck :
         LET data == drafts[Len(drafts)]
             r    == validate_weather_topic(data, check)
         IN /\ verdicts' = Append(verdicts,
                                  [prompt |-> OutputPrompt(data), check |-> check])
            /\ IF r.k = "return"
               THEN /\ result' = r
                    /\ tpc' = "approved"
                    /\ UNCHANGED <<retries, feedback>>
               ELSE /\ retries' = retries + 1
                    /\ IF retries + 1 > agent_retries
                       THEN /\ result' = Raise("UnexpectedModelBehavior")
                            /\ tpc' = "exhausted"
                            /\ UNCHANGED feedback
                       ELSE /\ feedback' = Append(feedback, r.v)
                            /\ tpc' = "drafting"
                            /\ UNCHANGED result
    /\ UNCHANGED <<drafts, toolVars>>
    /\ UNCHANGED <<pureVars, guardVars, procVars>>

\* guard_agent.run raises inside the validator: nothing catches it, the
\* exception leaves agent.run.
ClassifierFails ==
    /\ tpc = "classifying"
    /\ result' = Raise("ClassifierError")
    /\ tpc' = "failed"
    /\ UNCHANGED <<retries, drafts, verdicts, feedback, toolVars>>
    /\ UNCHANGED <<pureVars, guardVars, procVars>>

AllOffTopic == \A i \in 1..Len(verdicts) : ~verdicts[i].check.is_weather_related

\* C2: a turn never makes more than 3 drafts; it is exhausted only after
\* exactly 3 drafts that were all judged off-topic; and when the classifier
\* has answered off-topic three times the turn has ended in the terminal
\* failure.
C2_RetryBudgetTerminates ==
    /\ Len(drafts) <= 3
    /\ tpc = "exhausted" => (Len(drafts) = 3 /\ Len(verdicts) = 3 /\ AllOffTopic)
    /\ (AllOffTopic /\ Len(verdicts) = 3) =>
          (tpc = "exhausted" /\ result = Raise("UnexpectedModelBehavior"))
    /\ (AllOffTopic /\ Len(verdicts) < 3) =>
          tpc \in {"drafting", "classifying", "failed", "tool_exhausted"}

C2_Witness == tpc = "exhausted" /\ Len(drafts) = 3

\* C3: a turn returns text only when the classifier approved exactly that
\* text, and returns it unchanged; an exhausted turn ends in a failure, which
\* is no success result.
C3_OnlyApprovedTextReturned ==
    /\ result.k = "return" =>
          /\ tpc = "approved"
          /\ verdicts[Len(verdicts)].check.is_weather_related
          /\ verdicts[Len(verdicts)].prompt.text = drafts[Len(drafts)]
          /\ Len(verdicts) = Len(drafts)
          /\ result.v = JStr(drafts[Len(drafts)])
    /\ tpc = "approved" => result.k = "return"
    /\ tpc = "exhausted" => (result.k = "raise" /\ result.e = "UnexpectedModelBehavior")

C3_Witness ==
    /\ tpc = "approved" /\ Len(drafts) = 3
    /\ result = Return(JStr("I can only help with weather questions."))

(***************************************************************************)
(* The columnar parser (src/src/weather_service.py:107-158) and the row    *)
(* models it fills (src/src/models.py:19-42).                              *)
(***************************************************************************)
\* A str whose characters matter is a sequence of one-character strings.
DigitOf == ("0" :> 0) @@ ("1" :> 1) @@ ("2" :> 2) @@ ("3" :> 3) @@ ("4" :> 4)
           @@ ("5" :> 5) @@ ("6" :> 6) @@ ("7" :> 7) @@ ("8" :> 8) @@ ("9" :> 9)
IsDigit(c) == c \in DOMAIN DigitOf

RECURSIVE Number(_)
Number(cs) == IF cs = <<>> THEN 0
              ELSE 10 * Number(SubSeq(cs, 1, Len(cs) - 1)) + DigitOf[cs[Len(cs)]]

AllDigits(cs) == \A i \in 1..Len(cs) : IsDigit(cs[i])

IsLeap(y) == (y % 4 = 0 /\ y % 100 # 0) \/ y % 400 = 0
DaysInMonth(y, m) ==
    IF m = 2 THEN (IF IsLeap(y) THEN 29 ELSE 28)
    ELSE IF m \in {4, 6, 9, 11} THEN 30 ELSE 31

\* date.fromisoformat on a str of the form YYYY-MM-DD; any other str given to
\* the model is not an ISO date in any form and raises ValueError.
date_fromisoformat(cs) ==
    IF /\ Len(cs) = 10 /\ cs[5] = "-" /\ cs[8] = "-"
       /\ AllDigits(SubSeq(cs, 1, 4)) /\ AllDigits(SubSeq(cs, 6, 7))
       /\ AllDigits(SubSeq(cs, 9, 10))
    THEN LET y == Number(SubSeq(cs, 1, 4))
             m == Number(SubSeq(cs, 6, 7))
             d == Number(SubSeq(cs, 9, 10))
         IN IF y >= 1 /\ m \in 1..12 /\ d >= 1 /\ d <= DaysInMonth(y, m)
            THEN Return([year |-> y, month |-> m, day |-> d])
            ELSE Raise("ValueError")
    ELSE Raise("ValueError")

\* datetime.fromisoformat on a str of the form YYYY-MM-DDTHH:MM.
datetime_fromisoformat(cs) ==
    IF /\ Len(cs) = 16 /\ cs[11] = "T" /\ cs[14] = ":"
       /\ AllDigits(SubSeq(cs, 12, 13)) /\ AllDigits(SubSeq(cs, 15, 16))
    THEN LET dt == date_fromisoformat(SubSeq(cs, 1, 10))
             h  == Number(SubSeq(cs, 12, 13))
             mi == Number(SubSeq(cs, 15, 16))
         IN IF dt.k = "raise" THEN dt
            ELSE IF h <= 23 /\ mi <= 59
            THEN Return([year |-> dt.v.year, month |-> dt.v.month, day |-> dt.v.day,
                         hour |-> h, minute |-> mi])
            ELSE Raise("ValueError")
    ELSE Raise("ValueError")

\* The measurement fields of DailyWeather and HourlyWeather and their types
\* (each Optional, default None).
DailyFields ==
    {"temperature_2m_max", "temperature_2m_min", "sunrise", "sunset",
     "sunshine_duration", "daylight_duration", "wind_speed_10m_max",
     "precipitation_sum", "weather_code"}
HourlyFields ==
    {"temperature_2m", "wind_speed_10m", "precipitation", "weather_code", "is_day"}
FieldType(f) ==
    IF f \in {"sunrise", "sunset"} THEN "str"
    ELSE IF f \in {"weather_code", "is_day"} THEN "int" ELSE "float"

\* The model's validation of a field value: None and a value of the declared
\* type are kept as they are, anything else is a ValidationError.
Validates(f, v) ==
    \/ v.t = "null"
    \/ FieldType(f) = "str" /\ v.t = "str"
    \/ FieldType(f) \in {"int", "float"} /\ v.t = "num"

_get_at_off_by_one(data, key, index) ==
    LET col == get(data, key, None) IN
    IF col = None \/ index + 1 >= Len(col.a) THEN None ELSE col.a[index + 1]

\* _get_at: `index` counts from 0, col.a from 1.
_get_at(data, key, index) ==
    LET col == get(data, key, None) IN
    IF col = None \/ index >= Len(col.a) THEN None ELSE col.a[index + 1]

\* DailyWeather(date=date.fromisoformat(d), <field>=_get_at(raw, <field>, i), ...)
DailyWeather(raw, d, i) ==
    LET dt == IF d.t = "str" THEN date_fromisoformat(d.s) ELSE Raise("TypeError") IN
    IF dt.k = "raise" THEN dt
    ELSE IF \E f \in DailyFields : ~Validates(f, _get_at(raw, f, i))
    THEN Raise("ValidationError")
    ELSE Return([f \in DailyFields \cup {"date"} |->
                    IF f = "date" THEN dt.v ELSE _get_at(raw, f, i)])

\* HourlyWeather(time=datetime.fromisoformat(t), <field>=_get_at(raw, <field>, i), ...)
HourlyWeather(raw, t, i) ==
    LET dt == IF t.t = "str" THEN datetime_fromisoformat(t.s) ELSE Raise("TypeError") IN
    IF dt.k = "raise" THEN dt
    ELSE IF \E f \in HourlyFields : ~Validates(f, _get_at(raw, f, i))
    THEN Raise("ValidationError")
    ELSE Return([f \in HourlyFields \cup {"time"} |->
                    IF f = "time" THEN dt.v ELSE _get_at(raw, f, i)])

\* `for i, d in enumerate(dates): result.append(...)`, from position n on
\* (n counts from 1); the first row that raises ends the parse.
RECURSIVE daily_rows_skipping(_, _, _, _)
daily_rows_skipping(raw, dates, n, acc) ==
    IF n > Len(dates) THEN Return(acc)
    ELSE LET row == DailyWeather(raw, dates[n], n - 1) IN
         daily_rows_skipping(raw, dates, n + 1,
                             IF row.k = "raise" THEN acc ELSE Append(acc, row.v))

RECURSIVE daily_rows(_, _, _, _)
daily_rows(raw, dates, n, acc) ==
    IF n > Len(dates) THEN Return(acc)
    ELSE LET row == DailyWeather(raw, dates[n], n - 1) IN
         IF row.k = "raise" THEN row
         ELSE daily_rows(raw, dates, n + 1, Append(acc, row.v))

RECURSIVE hourly_rows(_, _, _, _)
hourly_rows(raw, times, n, acc) ==
    IF n > Len(times) THEN Return(acc)
    ELSE LET row == HourlyWeather(raw, times[n], n - 1) IN
         IF row.k = "raise" THEN row
         ELSE hourly_rows(raw, times, n + 1, Append(acc, row.v))

\* `dates = raw["time"]` in place of raw.get("time", []).
parse_daily_data_subscript(raw) ==
    IF "time" \notin DOMAIN raw.o THEN Raise("KeyError")
    ELSE IF ~Truthy(raw.o["time"]) THEN Return(<<>>)
    ELSE daily_rows(raw, raw.o["time"].a, 1, <<>>)

parse_daily_data(raw) ==
    LET dates == get(raw, "time", JArr(<<>>)) IN
    IF ~Truthy(dates) THEN Return(<<>>) ELSE daily_rows(raw, dates.a, 1, <<>>)

parse_hourly_data(raw) ==
    LET times == get(raw, "time", JArr(<<>>)) IN
    IF ~Truthy(times) THEN Return(<<>>) ELSE hourly_rows(raw, times.a, 1, <<>>)

(***************************************************************************)
(* Inputs of the parser: a time array of up to MaxLen entries (in any      *)
(* order, repeats allowed) or none, one field whose column has a shape of  *)
(* its own, and one shape shared by the columns of all other fields.  A    *)
(* column is absent, null, or an array of up to MaxLen + 1 values (longer  *)
(* than any time array) with at most one null among them; the value at     *)
(* position i of field f is unlike every other value of the payload.       *)
(* Faulty payloads come on top: a time array with an entry that is no      *)
(* date, or a column with one value that is not of the field's type.       *)
(***************************************************************************)
DayA == <<"2", "0", "2", "5", "-", "0", "1", "-", "1", "6">>
DayB == <<"2", "0", "2", "5", "-", "0", "1", "-", "1", "5">>
HourA == DayA \o <<"T", "1", "3", ":", "0", "0">>
HourB == DayA \o <<"T", "0", "0", ":", "3", "0">>
\* 30 February: of the ISO form, but no date.
DayBad  == <<"2", "0", "2", "5", "-", "0", "2", "-", "3", "0">>
HourBad == DayBad \o <<"T", "1", "3", ":", "0", "0">>

\* What the sample strings denote.
DenotedBy(cs) ==
    CASE cs = DayA  -> [year |-> 2025, month |-> 1, day |-> 16]
      [] cs = DayB  -> [year |-> 2025, month |-> 1, day |-> 15]
      [] cs = HourA -> [year |-> 2025, month |-> 1, day |-> 16, hour |-> 13, minute |-> 0]
      [] cs = HourB -> [year |-> 2025, month |-> 1, day |-> 16, hour |-> 0, minute |-> 30]

FieldOrder ==
    <<"temperature_2m_max", "temperature_2m_min", "sunrise", "sunset",
      "sunshine_duration", "daylight_duration", "wind_speed_10m_max",
      "precipitation_sum", "weather_code", "temperature_2m", "wind_speed_10m",
      "precipitation", "is_day">>
FieldNo(f) == CHOOSE n \in 1..Len(FieldOrder) : FieldOrder[n] = f

SampleValue(f, i) ==
    IF FieldType(f) = "str" THEN JStr(f \o "@" \o ToString(i))
    ELSE JNum(100 * FieldNo(f) + i)

\* A value no validation of field f accepts: text that is no number for a
\* numeric field, a number for a str field.
Mistyped(f) == IF FieldType(f) = "str" THEN JNum(0) ELSE JStr("n/a")

\* The shapes of a column; `hole` is the position of its null (of its
\* mistyped value in a "mistyped" column), 0 for none.
Shape(kind, len, hole) == [kind |-> kind, len |-> len, hole |-> hole]
PlainShapes ==
    {Shape("absent", 0, 0), Shape("null", 0, 0)}
        \cup {Shape("array", l, 0) : l \in 0..(MaxLen + 1)}
HoledShapes ==
    {sh \in {Shape("array", l, h) : l \in 1..(MaxLen + 1), h \in 1..(MaxLen + 1)} :
        sh.hole <= sh.len}

MistypedShapes ==
    {sh \in {Shape("mistyped", l, h) : l \in 1..(MaxLen + 1), h \in 1..(MaxLen + 1)} :
        sh.hole <= sh.len}

Column(f, shape) ==
    IF shape.kind = "null" THEN None
    ELSE JArr([i \in 1..shape.len |->
                  IF i # shape.hole THEN SampleValue(f, i)
                  ELSE IF shape.kind = "mistyped" THEN Mistyped(f) ELSE None])

\* The time arrays: none at all, or up to MaxLen sample strings.
TimeArrays(samples) ==
    {[present |-> FALSE, a |-> <<>>]}
        \cup {[present |-> TRUE, a |-> ts] : ts \in SeqsUpTo(samples, MaxLen)}

\* The payload as a dict: the keys of absent columns are missing.
Payload(fields, time, focus, own, others) ==
    LET keys == {f \in fields : (IF f = focus THEN own ELSE others).kind # "absent"}
                    \cup (IF time.present THEN {"time"} ELSE {})
    IN JObj([key \in keys |->
                IF key = "time" THEN JArr([i \in 1..Len(time.a) |-> JStr(time.a[i])])
                ELSE Column(key, IF key = focus THEN own ELSE others)])

ParserInputs(kind, fields, samples) ==
    {[kind |-> kind, raw |-> Payload(fields, time, focus, own, others)] :
        time \in TimeArrays(samples), focus \in fields,
        own \in PlainShapes \cup HoledShapes, others \in PlainShapes}

\* Faulty payloads: a time array with `bad` in it, or one mistyped value in
\* the column of one field; the other columns are longer than the time array.
FaultyInputs(kind, fields, samples, bad) ==
    LET full == Shape("array", MaxLen + 1, 0) IN
    {[kind |-> kind, raw |-> Payload(fields, time, focus, own, full)] :
        time \in {t \in TimeArrays(samples \cup {bad}) :
                     \E i \in 1..Len(t.a) : t.a[i] = bad},
        focus \in fields, own \in PlainShapes}
    \cup
    {[kind |-> kind, raw |-> Payload(fields, time, focus, own, full)] :
        time \in TimeArrays(samples), focus \in fields, own \in MistypedShapes}

InitParse ==
    /\ fn = "none" /\ ret = Pending /\ http = <<>>
    /\ arg \in ParserInputs("daily", DailyFields, {DayA, DayB})
                 \cup ParserInputs("hourly", HourlyFields, {HourA, HourB})
                 \cup FaultyInputs("daily", DailyFields, {DayA, DayB}, DayBad)
                 \cup FaultyInputs("hourly", HourlyFields, {HourA, HourB}, HourBad)
    /\ GuardIdle /\ TurnIdle /\ ProcIdle

ApplyParseDaily ==
    /\ fn = "none" /\ arg.kind = "daily"
    /\ fn' = "parse_daily_data"
    /\ ret' = parse_daily_data(arg.raw)
    /\ UNCHANGED <<arg, http, guardVars, turnVars, procVars>>

ApplyParseHourly ==
    /\ fn = "none" /\ arg.kind = "hourly"
    /\ fn' = "parse_hourly_data"
    /\ ret' = parse_hourly_data(arg.raw)
    /\ UNCHANGED <<arg, http, guardVars, turnVars, procVars>>

NextParse == ApplyParseDaily \/ ApplyParseHourly
SpecParse == InitParse /\ [][NextParse]_vars

\* The value the columnar contract gives field f of row i (from 1): the
\* column's entry at i if the column exists and reaches that far, else null.
Aligned(raw, f, i) ==
    IF f \in DOMAIN raw.o /\ raw.o[f] # None /\ i <= Len(raw.o[f].a)
    THEN raw.o[f].a[i] ELSE None

\* The time array of a payload (none counts as empty), the sample strings
\* that denote a date or a time, and the payloads without a fault: every
\* time entry denotes, every value a row reads is a sample value or null.
TimeOf(raw) == IF "time" \in DOMAIN raw.o THEN raw.o["time"].a ELSE <<>>
Denoting == {DayA, DayB, HourA, HourB}
IsSample(f, v) == v = None \/ \E i \in 1..(MaxLen + 1) : v = SampleValue(f, i)
FaultAt(raw, fields, i) ==
    \/ TimeOf(raw)[i].s \notin Denoting
    \/ \E f \in fields : ~IsSample(f, Aligned(raw, f, i))
Faultless(raw, fields) == \A i \in 1..Len(TimeOf(raw)) : ~FaultAt(raw, fields, i)
FieldsOf(name) == IF name = "parse_daily_data" THEN DailyFields ELSE HourlyFields

\* C10: for a time array of n parsable entries parse_daily_data and
\* parse_hourly_data return exactly n records, in source order; record i
\* carries the date or time that time[i] denotes, and for every known field
\* column[f][i] if that column exists and reaches i, else null.
C10_RowsAlignWithColumns ==
    (/\ fn \in {"parse_daily_data", "parse_hourly_data"}
     /\ "time" \in DOMAIN arg.raw.o
     /\ Faultless(arg.raw, FieldsOf(fn))) =>
        LET time   == arg.raw.o.time.a
            fields == IF fn = "parse_daily_data" THEN DailyFields ELSE HourlyFields
            key    == IF fn = "parse_daily_data" THEN "date" ELSE "time"
        IN /\ ret.k = "return"
           /\ Len(ret.v) = Len(time)
           /\ \A i \in 1..Len(time) :
                 /\ ret.v[i][key] = DenotedBy(time[i].s)
                 /\ \A f \in fields : ret.v[i][f] = Aligned(arg.raw, f, i)

\* Two days out of chronological order, one column shorter than the time
\* array and its siblings full.
C10_Witness ==
    /\ fn = "parse_daily_data" /\ "time" \in DOMAIN arg.raw.o
    /\ arg.raw.o.time.a = <<JStr(DayA), JStr(DayB)>>
    /\ "sunrise" \in DOMAIN arg.raw.o /\ arg.raw.o["sunrise"] # None
    /\ Len(arg.raw.o["sunrise"].a) = 1
    /\ ret.k = "return" /\ Len(ret.v) = 2
    /\ ret.v[2]["sunrise"] = None
    /\ ret.v[2]["weather_code"] = SampleValue("weather_code", 2)

\* C11: when the payload has no "time" key, or its time array is empty,
\* parse_daily_data and parse_hourly_data return the empty sequence and do
\* not raise, whatever measurement columns the payload carries.
C11_NoTimeNoRows ==
    (/\ fn \in {"parse_daily_data", "parse_hourly_data"}
     /\ ("time" \notin DOMAIN arg.raw.o \/ arg.raw.o["time"] = JArr(<<>>))) =>
        ret = Return(<<>>)

\* No time key, yet every measurement column is there, one longer than the
\* others.
C11_Witness ==
    /\ fn = "parse_daily_data" /\ "time" \notin DOMAIN arg.raw.o
    /\ DOMAIN arg.raw.o = DailyFields
    /\ \A f \in DailyFields : arg.raw.o[f] # None
    /\ Len(arg.raw.o["sunrise"].a) = MaxLen + 1
    /\ Len(arg.raw.o["weather_code"].a) = MaxLen
    /\ ret = Return(<<>>)

\* C12: the parse raises exactly when a time entry is unparsable or a value
\* it reads is not of its field's type, and then it yields no rows at all;
\* otherwise, whatever the shapes of the columns (absent, null, empty,
\* shorter or longer than the time array), it returns one record per time
\* entry.
C12_FailsOnlyOnBadValues ==
    fn \in {"parse_daily_data", "parse_hourly_data"} =>
        IF Faultless(arg.raw, FieldsOf(fn))
        THEN ret.k = "return" /\ Len(ret.v) = Len(TimeOf(arg.raw))
        ELSE /\ ret.k = "raise" /\ ret.v = None
             /\ ret.e \in {"ValueError", "ValidationError"}

\* The second of two time entries is no date: the first row was built, the
\* parse raises all the same.
C12_Witness ==
    /\ fn = "parse_daily_data"
    /\ TimeOf(arg.raw) = <<JStr(DayA), JStr(DayBad)>>
    /\ "sunrise" \notin DOMAIN arg.raw.o
    /\ ret = Raise("ValueError")

(***************************************************************************)
(* The Open-Meteo client (src/src/weather_service.py:10-104) and the three *)
(* tools (src/src/tools.py), as functions of their arguments and of what   *)
(* the remote source does with the request.  Each gives its outcome `out`  *)
(* and the requests it issued, `sent`.  Coordinates are numbers in units   *)
(* of 1/10000 degree; a date str is a sequence of characters.              *)
(***************************************************************************)
GEOCODING_URL == "https://geocoding-api.open-meteo.com/v1/search"
FORECAST_URL  == "https://api.open-meteo.com/v1/forecast"
ARCHIVE_URL   == "https://archive-api.open-meteo.com/v1/archive"
DAILY_PARAMS  == "temperature_2m_max,temperature_2m_min,sunrise,sunset,"
                 \o "sunshine_duration,daylight_duration,wind_speed_10m_max,"
                 \o "precipitation_sum,weather_code"
HOURLY_PARAMS == "temperature_2m,wind_speed_10m,precipitation,weather_code,is_day"

\* What the remote source does with a request: the client raises, or a
\* response with a status code and a JSON body comes back.
NoResponse(e)        == [kind |-> "raise", e |-> e]
Response(code, json) == [kind |-> "response", status_code |-> code, json |-> json]

\* The exceptions of the client that are httpx.HTTPError.
httpx_HTTPError == {"ConnectError", "ReadTimeout", "HTTPStatusError"}

Request(url, params) == [url |-> url, params |-> params]

\* await client.get(url, params=...)
client_get(remote) == IF remote.kind = "raise" THEN Raise(remote.e) ELSE Return(remote)

\* resp.raise_for_status(): anything but a 2xx raises.
raise_for_status(resp) ==
    IF resp.status_code \in 200..299 THEN Return(None) ELSE Raise("HTTPStatusError")

\* `resp = await client.get(..); resp.raise_for_status(); data = resp.json()`
get_data(remote) ==
    LET resp == client_get(remote) IN
    IF resp.k = "raise" THEN resp
    ELSE IF raise_for_status(resp.v).k = "raise" THEN raise_for_status(resp.v)
    ELSE Return(resp.v.json)

\* GeoLocation(latitude=r["latitude"], ..., country=r.get("country"))
GeoLocation(r) ==
    [latitude  |-> r.o["latitude"],
     longitude |-> r.o["longitude"],
     timezone  |-> get(r, "timezone", JStr("UTC")),
     name      |-> r.o["name"],
     country   |-> get(r, "country", None)]

geocode_last_candidate(remote, city_name) ==
    LET data == get_data(remote) IN
    [sent |-> <<Request(GEOCODING_URL,
                        [name |-> city_name, count |-> 1, language |-> "en"])>>,
     out  |-> IF data.k = "raise" THEN data
              ELSE LET results == get(data.v, "results", None) IN
                   IF ~Truthy(results) THEN Return(None)
                   ELSE Return(GeoLocation(results.a[Len(results.a)]))]

geocode(remote, city_name) ==
    LET data == get_data(remote) IN
    [sent |-> <<Request(GEOCODING_URL,
                        [name |-> city_name, count |-> 1, language |-> "en"])>>,
     out  |-> IF data.k = "raise" THEN data
              ELSE LET results == get(data.v, "results", None) IN
                   IF ~Truthy(results) THEN Return(None)
                   ELSE Return(GeoLocation(results.a[1]))]

\* "%04d-%02d-%02d" and its parts.
CharOf == <<"0", "1", "2", "3", "4", "5", "6", "7", "8", "9">>

RECURSIVE Digits(_, _)
Digits(n, width) ==
    IF width = 0 THEN <<>>
    ELSE Digits(n \div 10, width - 1) \o <<CharOf[(n % 10) + 1]>>

RECURSIVE Decimal(_)
Decimal(n) == IF n < 10 THEN <<CharOf[n + 1]>>
              ELSE Decimal(n \div 10) \o <<CharOf[(n % 10) + 1]>>

date_isoformat_unpadded(d) ==
    Decimal(d.year) \o <<"-">> \o Decimal(d.month) \o <<"-">> \o Decimal(d.day)

\* date.isoformat()
date_isoformat(d) ==
    Digits(d.year, 4) \o <<"-">> \o Digits(d.month, 2) \o <<"-">> \o Digits(d.day, 2)

\* datetime.isoformat() of a time without seconds, as JSON mode dumps it.
datetime_isoformat(t) ==
    date_isoformat(t) \o <<"T">> \o Digits(t.hour, 2) \o <<":">> \o Digits(t.minute, 2)
        \o <<":", "0", "0">>

\* WeatherResponse(latitude=data["latitude"], ..., hourly=parse_hourly_data(..))
WeatherResponse(data, timezone) ==
    LET daily  == parse_daily_data(get(data, "daily", JObj(<<>>)))
        hourly == parse_hourly_data(get(data, "hourly", JObj(<<>>)))
    IN IF ~({"latitude", "longitude"} \subseteq DOMAIN data.o) THEN Raise("KeyError")
       ELSE IF daily.k = "raise" THEN daily
       ELSE IF hourly.k = "raise" THEN hourly
       ELSE Return([latitude  |-> data.o["latitude"],
                    longitude |-> data.o["longitude"],
                    timezone  |-> get(data, "timezone", JStr(timezone)),
                    daily     |-> daily.v,
                    hourly    |-> hourly.v])

get_forecast(remote, latitude, longitude, timezone, forecast_days) ==
    LET data == get_data(remote) IN
    [sent |-> <<Request(FORECAST_URL,
                        [latitude |-> latitude, longitude |-> longitude,
                         timezone |-> timezone, daily |-> DAILY_PARAMS,
                         hourly |-> HOURLY_PARAMS, forecast_days |-> forecast_days])>>,
     out  |-> IF data.k = "raise" THEN data ELSE WeatherResponse(data.v, timezone)]

get_historical_weather(remote, latitude, longitude, timezone, start_date, end_date) ==
    LET data == get_data(remote) IN
    [sent |-> <<Request(ARCHIVE_URL,
                        [latitude |-> latitude, longitude |-> longitude,
                         timezone |-> timezone, daily |-> DAILY_PARAMS,
                         hourly |-> HOURLY_PARAMS,
                         start_date |-> date_isoformat(start_date),
                         end_date |-> date_isoformat(end_date)])>>,
     out  |-> IF data.k = "raise" THEN data ELSE WeatherResponse(data.v, timezone)]

\* result.model_dump() of a GeoLocation.
model_dump(loc) == JObj(loc)

\* result.model_dump(mode="json") of a WeatherResponse: dates and times
\* become ISO strings.
model_dump_json(w) ==
    JObj([latitude  |-> w.latitude, longitude |-> w.longitude, timezone |-> w.timezone,
          daily  |-> JArr([i \in 1..Len(w.daily) |->
                      JObj([f \in DOMAIN w.daily[i] |->
                              IF f = "date" THEN JStr(date_isoformat(w.daily[i][f]))
                              ELSE w.daily[i][f]])]),
          hourly |-> JArr([i \in 1..Len(w.hourly) |->
                      JObj([f \in DOMAIN w.hourly[i] |->
                              IF f = "time" THEN JStr(datetime_isoformat(w.hourly[i][f]))
                              ELSE w.hourly[i][f]])])])

OrModelRetry_uncaught(out, prefix) == out

\* `except httpx.HTTPError as e: raise ModelRetry(f"<prefix>{e}")`: any other
\* exception leaves the tool as it is.
OrModelRetry(out, prefix) ==
    IF out.k = "raise" /\ out.e \in httpx_HTTPError THEN ModelRetry(prefix \o out.e)
    ELSE out

get_location_coordinates_retry_on_none(remote, city_name) ==
    LET r == geocode(remote, city_name) IN
    [sent |-> r.sent,
     out  |-> IF r.out.k = "raise" \/ r.out.v = None
              THEN ModelRetry("Geocoding API failed for '" \o city_name \o "'")
              ELSE Return(model_dump(r.out.v))]

get_location_coordinates(remote, city_name) ==
    LET r == geocode(remote, city_name) IN
    [sent |-> r.sent,
     out  |-> IF r.out.k = "raise"
              THEN OrModelRetry(r.out, "Geocoding API failed for '" \o city_name \o "': ")
              ELSE IF r.out.v = None
              THEN Return(JObj([error |-> JStr("Could not find location: " \o city_name)]))
              ELSE Return(model_dump(r.out.v))]

get_weather_forecast(remote, latitude, longitude, timezone, forecast_days) ==
    LET r == get_forecast(remote, latitude, longitude, timezone, forecast_days) IN
    [sent |-> r.sent,
     out  |-> IF r.out.k = "raise" THEN OrModelRetry(r.out, "Forecast API failed: ")
              ELSE Return(model_dump_json(r.out.v))]

\* The dates are parsed without a try block around them.
get_historical_weather_data_raw_parse(remote, latitude, longitude, timezone, start_date, end_date) ==
    LET start == date_fromisoformat(start_date)
        end   == date_fromisoformat(end_date)
    IN IF start.k = "raise" \/ end.k = "raise"
       THEN [sent |-> <<>>, out |-> Raise("ValueError")]
       ELSE LET r == get_historical_weather(remote, latitude, longitude, timezone,
                                            start.v, end.v)
            IN [sent |-> r.sent,
                out  |-> IF r.out.k = "raise"
                         THEN OrModelRetry(r.out, "Historical weather API failed: ")
                         ELSE Return(model_dump_json(r.out.v))]

\* The archive request is made first and the dates are looked at afterwards.
get_historical_weather_data_fetch_first(remote, latitude, longitude, timezone, start_date, end_date) ==
    LET start == date_fromisoformat(start_date)
        end   == date_fromisoformat(end_date)
        day   == [year |-> 1, month |-> 1, day |-> 1]
        r     == get_historical_weather(remote, latitude, longitude, timezone,
                     IF start.k = "raise" THEN day ELSE start.v,
                     IF end.k = "raise" THEN day ELSE end.v)
    IN [sent |-> r.sent,
        out  |-> IF start.k = "raise" \/ end.k = "raise"
                 THEN ModelRetry("Invalid date format, use YYYY-MM-DD: ValueError")
                 ELSE IF r.out.k = "raise"
                 THEN OrModelRetry(r.out, "Historical weather API failed: ")
                 ELSE Return(model_dump_json(r.out.v))]

get_historical_weather_data(remote, latitude, longitude, timezone, start_date, end_date) ==
    LET start == date_fromisoformat(start_date)
        end   == date_fromisoformat(end_date)
    IN IF start.k = "raise" \/ end.k = "raise"
       THEN [sent |-> <<>>,
             out  |-> ModelRetry("Invalid date format, use YYYY-MM-DD: ValueError")]
       ELSE LET r == get_historical_weather(remote, latitude, longitude, timezone,
                                            start.v, end.v)
            IN [sent |-> r.sent,
                out  |-> IF r.out.k = "raise"
                         THEN OrModelRetry(r.out, "Historical weather API failed: ")
                         ELSE Return(model_dump_json(r.out.v))]

(***************************************************************************)
(* SpecTools: geocode and the three tools applied to bounded arguments     *)
(* and remote behaviours.  The remote source fails (no response, or a      *)
(* response that is not 2xx) or answers 200 with a body: for the geocoding *)
(* endpoint a result set that is absent, null, or a list of up to          *)
(* MaxCandidates candidates, each with or without the optional timezone    *)
(* and country; for the weather endpoints a full or a minimal payload.     *)
(***************************************************************************)
MaxCandidates == 2

Copenhagen ==
    [latitude |-> JNum(556761), longitude |-> JNum(125683),
     timezone |-> JStr("Europe/Copenhagen"), name |-> JStr("Copenhagen"),
     country |-> JStr("Denmark")]
Lima ==
    [latitude |-> JNum(-120464), longitude |-> JNum(-770428),
     timezone |-> JStr("America/Lima"), name |-> JStr("Lima"),
     country |-> JStr("Peru")]
Places    == {Copenhagen, Lima}
CityNames == {"Copenhagen", "Xyzzyville"}

\* A candidate of the geocoding API: the fields of a place, the optional ones
\* present or not, and a field the client does not read.
Candidate(place, optional) ==
    JObj([key \in {"id", "latitude", "longitude", "name"} \cup optional |->
             IF key = "id" THEN JNum(1) ELSE place[key]])
Candidates ==
    {Candidate(place, optional) :
        place \in Places, optional \in SUBSET {"timezone", "country"}}

FailingRemotes ==
    {NoResponse("ConnectError"), NoResponse("ReadTimeout")}
        \cup {Response(code, JObj([reason |-> JStr("-")])) : code \in {301, 404, 500}}
GeocodeRemotes ==
    FailingRemotes
        \cup {Response(200, JObj([generationtime_ms |-> JNum(1)])),
              Response(200, JObj([results |-> None]))}
        \cup {Response(200, JObj([results |-> JArr(cs)])) :
                 cs \in SeqsUpTo(Candidates, MaxCandidates)}
WeatherRemotes ==
    FailingRemotes
        \cup {Response(200, JObj([latitude |-> JNum(556800), longitude |-> JNum(125700)])),
              Response(200, JObj([latitude |-> JNum(556800), longitude |-> JNum(125700),
                                  timezone |-> JStr("Europe/Copenhagen"),
                                  daily  |-> JObj([time |-> JArr(<<JStr(DayA)>>),
                                                   weather_code |-> JArr(<<JNum(3)>>)]),
                                  hourly |-> JObj([time |-> JArr(<<JStr(HourA)>>),
                                                   is_day |-> JArr(<<JNum(1)>>)])]))}

\* Date strings a Responder may pass: three dates, and four strings that
\* date.fromisoformat rejects (a placeholder, a date without zero padding,
\* 30 February, a date with a time of day).
Jan01     == <<"2", "0", "2", "4", "-", "0", "1", "-", "0", "1">>
Jan31     == <<"2", "0", "2", "4", "-", "0", "1", "-", "3", "1">>
Dec05_999 == <<"0", "9", "9", "9", "-", "1", "2", "-", "0", "5">>
GoodDates == {Jan01, Jan31, Dec05_999}
BadDates  == {<<"a">>,
              <<"2", "0", "2", "4", "-", "1", "-", "5">>,
              <<"2", "0", "2", "4", "-", "0", "2", "-", "3", "0">>,
              Jan01 \o <<"T", "0", "0", ":", "0", "0">>}
DateStrings == GoodDates \cup BadDates

\* forecast_days when the caller gives none (tools.py: forecast_days: int = 7).
forecast_days_default == 7
ForecastDays == {0, 1, 7, 16, 17}

Coordinates(place) ==
    [latitude |-> place.latitude, longitude |-> place.longitude,
     timezone |-> place.timezone.s]

ToolInputs ==
    {[tool |-> t, remote |-> r, args |-> [city_name |-> c]] :
        t \in {"geocode", "get_location_coordinates"}, r \in GeocodeRemotes,
        c \in CityNames}
    \cup
    {[tool |-> "get_weather_forecast", remote |-> r, args |-> Coordinates(p)] :
        r \in WeatherRemotes, p \in Places}
    \cup
    {[tool |-> "get_weather_forecast", remote |-> r,
      args |-> Coordinates(p) @@ [forecast_days |-> n]] :
        r \in WeatherRemotes, p \in Places, n \in ForecastDays}
    \cup
    {[tool |-> "get_historical_weather_data", remote |-> r,
      args |-> Coordinates(p) @@ [start_date |-> d1, end_date |-> d2]] :
        r \in WeatherRemotes, p \in Places, d1 \in DateStrings, d2 \in DateStrings}

InitTools ==
    /\ fn = "none" /\ ret = Pending /\ http = <<>>
    /\ arg \in ToolInputs
    /\ GuardIdle /\ TurnIdle /\ ProcIdle

\* The function named by arg.tool is called; `effect` is what it does.
Applied(name, effect) ==
    /\ fn = "none" /\ arg.tool = name
    /\ fn' = name
    /\ ret' = effect.out
    /\ http' = effect.sent
    /\ UNCHANGED <<arg, guardVars, turnVars, procVars>>

ApplyGeocode ==
    Applied("geocode", geocode(arg.remote, arg.args.city_name))

ApplyGetLocationCoordinates ==
    Applied("get_location_coordinates",
            get_location_coordinates(arg.remote, arg.args.city_name))

ApplyGetWeatherForecast ==
    Applied("get_weather_forecast",
            get_weather_forecast(arg.remote, arg.args.latitude, arg.args.longitude,
                arg.args.timezone,
                IF "forecast_days" \in DOMAIN arg.args THEN arg.args.forecast_days
                ELSE forecast_days_default))

ApplyGetHistoricalWeatherData ==
    Applied("get_historical_weather_data",
            get_historical_weather_data(arg.remote, arg.args.latitude,
                arg.args.longitude, arg.args.timezone,
                arg.args.start_date, arg.args.end_date))

NextTools ==
    \/ ApplyGeocode
    \/ ApplyGetLocationCoordinates
    \/ ApplyGetWeatherForecast
    \/ ApplyGetHistoricalWeatherData
SpecTools == InitTools /\ [][NextTools]_vars

\* What the remote source did, read off the input.
RemoteFailed == arg.remote.kind = "raise" \/ arg.remote.status_code \notin 200..299
ResultSet ==
    IF "results" \in DOMAIN arg.remote.json.o THEN arg.remote.json.o["results"] ELSE None
NotFoundRecord ==
    JObj([error |-> JStr("Could not find location: " \o arg.args.city_name)])

\* C13: when the geocoding endpoint answers with no result set (no "results"
\* key, null) or an empty one, geocode returns None and the tool
\* returns the error record as its data, raising nothing; when the request
\* fails (no response, or a status that is not 2xx) geocode raises the
\* client's HTTPError and the tool raises ModelRetry, so neither gives the
\* not-found value.
C13_NotFoundIsNotFailure ==
    fn \in {"geocode", "get_location_coordinates"} =>
        /\ (~RemoteFailed /\ ResultSet \in {None, JArr(<<>>)}) =>
              ret = IF fn = "geocode" THEN Return(None) ELSE Return(NotFoundRecord)
        /\ RemoteFailed =>
              /\ ret.k = "raise"
              /\ IF fn = "get_location_coordinates" THEN ret.e = "ModelRetry"
                 ELSE ret.e = IF arg.remote.kind = "raise" THEN arg.remote.e
                              ELSE "HTTPStatusError"

\* The tool is asked for a city the source answers with an empty list.
C13_Witness ==
    /\ fn = "get_location_coordinates"
    /\ arg.remote = Response(200, JObj([results |-> JArr(<<>>)]))
    /\ Len(http) = 1 /\ http[1].url = GEOCODING_URL
    /\ ret = Return(JObj([error |-> JStr("Could not find location: Xyzzyville")]))

\* C16: when the start date or the end date given to
\* get_historical_weather_data is malformed, the invocation issues no request
\* at all (none to the archive endpoint) and ends in ModelRetry.
C16_BadDatesSendNothing ==
    (/\ fn = "get_historical_weather_data"
     /\ (arg.args.start_date \notin GoodDates \/ arg.args.end_date \notin GoodDates)) =>
        /\ http = <<>>
        /\ ret.k = "raise" /\ ret.e = "ModelRetry"

\* A good start date and 30 February as the end date, the archive ready to
\* answer.
C16_Witness ==
    /\ fn = "get_historical_weather_data"
    /\ arg.args.start_date = Jan01
    /\ arg.args.end_date = <<"2", "0", "2", "4", "-", "0", "2", "-", "3", "0">>
    /\ arg.remote.kind = "response" /\ arg.remote.status_code = 200
    /\ http = <<>> /\ ret.k = "raise" /\ ret.e = "ModelRetry"

\* The form YYYY-MM-DD: ten characters, digits but for the two hyphens.
IsCalendarDate(cs) ==
    /\ Len(cs) = 10
    /\ \A i \in 1..10 :
          IF i \in {5, 8} THEN cs[i] = "-"
          ELSE cs[i] \in {"0", "1", "2", "3", "4", "5", "6", "7", "8", "9"}

\* C19: a date range the historical tool accepts leads to exactly one
\* request, to the archive endpoint, whose start_date and end_date are of
\* the form YYYY-MM-DD and are the very strings the tool was given.
C19_DatesSentAsGiven ==
    fn = "get_historical_weather_data" =>
        /\ (arg.args.start_date \in GoodDates /\ arg.args.end_date \in GoodDates) =>
              Len(http) = 1
        /\ http # <<>> =>
              /\ Len(http) = 1 /\ http[1].url = ARCHIVE_URL
              /\ IsCalendarDate(http[1].params.start_date)
              /\ IsCalendarDate(http[1].params.end_date)
              /\ http[1].params.start_date = arg.args.start_date
              /\ http[1].params.end_date = arg.args.end_date

\* A year below 1000 and a day below 10: the padding zeros are sent.
C19_Witness ==
    /\ fn = "get_historical_weather_data"
    /\ Len(http) = 1
    /\ http[1].params.start_date = Dec05_999
    /\ http[1].params.end_date = Jan01
    /\ ret.k = "return"

\* The Location the first candidate of the result set stands for.
FirstCandidate == ResultSet.a[1].o
LocationOfFirst ==
    [latitude  |-> FirstCandidate["latitude"],
     longitude |-> FirstCandidate["longitude"],
     name      |-> FirstCandidate["name"],
     timezone  |-> IF "timezone" \in DOMAIN FirstCandidate
                   THEN FirstCandidate["timezone"] ELSE JStr("UTC"),
     country   |-> IF "country" \in DOMAIN FirstCandidate
                   THEN FirstCandidate["country"] ELSE None]

\* C20: for a result set with at least one candidate geocode returns the
\* Location whose latitude, longitude, timezone, name and country are those
\* of the first candidate, whatever candidates follow; country is None when
\* that candidate has none (and timezone "UTC" when it has none).  The tool
\* returns the same five fields as its record.
C20_FirstCandidateOnly ==
    (/\ fn \in {"geocode", "get_location_coordinates"}
     /\ ~RemoteFailed /\ ResultSet \notin {None, JArr(<<>>)}) =>
        ret = IF fn = "geocode" THEN Return(LocationOfFirst)
              ELSE Return(JObj(LocationOfFirst))

\* Two candidates: Lima without a country first, Copenhagen in full second.
C20_Witness ==
    /\ fn = "geocode" /\ ~RemoteFailed /\ ResultSet \notin {None, JArr(<<>>)}
    /\ ResultSet.a = <<Candidate(Lima, {"timezone"}),
                       Candidate(Copenhagen, {"timezone", "country"})>>
    /\ ret.k = "return"
    /\ ret.v.name = JStr("Lima") /\ ret.v.country = None
    /\ ret.v.timezone = JStr("America/Lima")

(***************************************************************************)
(* The Responder's tool calls within a turn (src/src/tools.py under        *)
(* Agent(retries=2), src/src/agent.py:49-53).  The Responder is opaque: in *)
(* a step it emits a draft or calls a tool, any tool with any arguments,   *)
(* one call per step.  A tool that raises ModelRetry gets a retry prompt   *)
(* and one more failure on its count in the run context; when its count    *)
(* has reached the agent's retries the run ends in UnexpectedModelBehavior *)
(* naming the tool.  The counts of tools that did not fail in a step are   *)
(* dropped.  Any other exception of a tool leaves agent.run.               *)
(***************************************************************************)
\* f"Tool {name!r} exceeded max retries count of {max_retries}"
ToolExhausted(name) ==
    [k |-> "raise",
     v |-> JStr("Tool '" \o name \o "' exceeded max retries count of "
                \o ToString(agent_retries)),
     e |-> "UnexpectedModelBehavior"]

\* What the remote sources may do with a request of the turn.
TurnGeocodeRemotes(city_name) ==
    {NoResponse("ConnectError"),
     Response(500, JObj([reason |-> JStr("-")])),
     Response(200, JObj([generationtime_ms |-> JNum(1)]))}
        \cup {Response(200, JObj([results |-> JArr(<<Candidate(place, {"timezone", "country"})>>)])) :
                 place \in {p \in Places : p.name.s = city_name}}
TurnWeatherRemotes ==
    {NoResponse("ConnectError"),
     Response(500, JObj([reason |-> JStr("-")])),
     Response(200, JObj([generationtime_ms |-> JNum(1)]))}
        \cup {r \in WeatherRemotes :
                 r.kind = "response" /\ r.status_code = 200 /\ "daily" \in DOMAIN r.json.o}
\* The archive as a call with these dates may meet it: a call with malformed
\* dates never gets to it, and is given the archive that would answer.
TurnArchiveRemotes(dates) ==
    IF {dates[1], dates[2]} \subseteq GoodDates THEN TurnWeatherRemotes
    ELSE {r \in TurnWeatherRemotes :
             r.kind = "response" /\ r.status_code = 200 /\ "daily" \in DOMAIN r.json.o}
TurnCities == {"Copenhagen"}
TurnPlaces == Places
TurnDates  == {<<Jan01, Jan31>>, <<Jan01, <<"a">> >>, << <<"a">>, <<"a">> >>}

\* The step with one counter for both kinds of retry: a tool's ModelRetry
\* also costs an output retry.
ToolStep_shared_budget(name, args, remote, effect, found) ==
    /\ tpc = "drafting"
    /\ last_call' = [tool |-> name, args |-> args, remote |-> remote,
                     retry |-> tool_retries[name], out |-> effect.out,
                     sent |-> effect.sent, known |-> resolved]
    /\ resolved' = resolved \cup found
    /\ IF effect.out.k = "return"
       THEN /\ tool_retries' = NoRetries
            /\ UNCHANGED <<tpc, result, tool_corrections>>
       ELSE IF effect.out.e = "ModelRetry"
       THEN IF tool_retries[name] = agent_retries
            THEN /\ tpc' = "tool_exhausted"
                 /\ result' = ToolExhausted(name)
                 /\ UNCHANGED <<tool_retries, tool_corrections>>
            ELSE /\ tool_corrections < MaxCorrections
                 /\ tool_retries' = [t \in ToolNames |->
                                        IF t = name THEN tool_retries[t] + 1 ELSE 0]
                 /\ tool_corrections' = tool_corrections + 1
                 /\ UNCHANGED <<tpc, result>>
       ELSE /\ tpc' = "failed"
            /\ result' = effect.out
            /\ UNCHANGED <<tool_retries, tool_corrections>>
    /\ retries' = IF effect.out.k = "raise" /\ effect.out.e = "ModelRetry"
                   /\ tool_retries[name] # agent_retries
                THEN retries + 1 ELSE retries
    /\ UNCHANGED <<drafts, verdicts, feedback>>
    /\ UNCHANGED <<pureVars, guardVars, procVars>>

\* One step of the run in which tool `name` is called with `args` and does
\* `effect`; `found` is the place the call has resolved, if any.
ToolStep(name, args, remote, effect, found) ==
    /\ tpc = "drafting"
    /\ last_call' = [tool |-> name, args |-> args, remote |-> remote,
                     retry |-> tool_retries[name], out |-> effect.out,
                     sent |-> effect.sent, known |-> resolved]
    /\ resolved' = resolved \cup found
    /\ IF effect.out.k = "return"
       THEN /\ tool_retries' = NoRetries
            /\ UNCHANGED <<tpc, result, tool_corrections>>
       ELSE IF effect.out.e = "ModelRetry"
       THEN IF tool_retries[name] = agent_retries
            THEN /\ tpc' = "tool_exhausted"
                 /\ result' = ToolExhausted(name)
                 /\ UNCHANGED <<tool_retries, tool_corrections>>
            ELSE /\ tool_corrections < MaxCorrections
                 /\ tool_retries' = [t \in ToolNames |->
                                        IF t = name THEN tool_retries[t] + 1 ELSE 0]
                 /\ tool_corrections' = tool_corrections + 1
                 /\ UNCHANGED <<tpc, result>>
       ELSE /\ tpc' = "failed"
            /\ result' = effect.out
            /\ UNCHANGED <<tool_retries, tool_corrections>>
    /\ UNCHANGED <<retries, drafts, verdicts, feedback>>
    /\ UNCHANGED <<pureVars, guardVars, procVars>>

CallGetLocationCoordinates ==
    \E city_name \in TurnCities : \E remote \in TurnGeocodeRemotes(city_name) :
        LET effect == get_location_coordinates(remote, city_name) IN
        ToolStep("get_location_coordinates", [city_name |-> city_name], remote, effect,
                 IF effect.out.k = "return" /\ "name" \in DOMAIN effect.out.v.o
                 THEN {effect.out.v.o["name"].s} ELSE {})

CallGetWeatherForecast ==
    \E place \in TurnPlaces : \E remote \in TurnWeatherRemotes :
        ToolStep("get_weather_forecast", Coordinates(place) @@ [name |-> place.name.s],
                 remote,
                 get_weather_forecast(remote, place.latitude, place.longitude,
                                      place.timezone.s, forecast_days_default),
                 {})

CallGetHistoricalWeatherData ==
    \E place \in TurnPlaces : \E dates \in TurnDates :
    \E remote \in TurnArchiveRemotes(dates) :
        ToolStep("get_historical_weather_data",
                 Coordinates(place) @@ [name |-> place.name.s, start_date |-> dates[1],
                                        end_date |-> dates[2]],
                 remote,
                 get_historical_weather_data(remote, place.latitude, place.longitude,
                                             place.timezone.s, dates[1], dates[2]),
                 {})

NextTurn ==
    \/ Draft
    \/ Classify
    \/ ClassifierFails
    \/ CallGetLocationCoordinates
    \/ CallGetWeatherForecast
    \/ CallGetHistoricalWeatherData
SpecTurn == InitTurn /\ [][NextTurn]_vars

\* What the latest tool call met: a request that failed in transport (a
\* request was made and got no response or a status that is not 2xx), or
\* malformed dates.
TransportFailed ==
    /\ last_call.tool \in ToolNames /\ last_call.sent # <<>>
    /\ (last_call.remote.kind = "raise" \/ last_call.remote.status_code \notin 200..299)
BadDatesGiven ==
    /\ last_call.tool = "get_historical_weather_data"
    /\ (last_call.args.start_date \notin GoodDates
        \/ last_call.args.end_date \notin GoodDates)
\* The turn has been ended by a tool: by its retries running out, or by an
\* exception of the client or of the date parser leaving agent.run.
EndedByTool ==
    \/ tpc = "tool_exhausted"
    \/ result \in {ToolExhausted(t) : t \in ToolNames}
    \/ result.e \in httpx_HTTPError \cup {"ValueError"}

\* C14 (as claimed): a transport failure of a tool call is answered with
\* ModelRetry and does not end the turn while corrective attempts are left;
\* a turn grants at most 2 corrective attempts, and a tool ends it only when
\* those 2 are used up.
C14_TwoCorrectionsPerTurn ==
    /\ tool_corrections <= agent_retries
    /\ TransportFailed =>
          /\ last_call.out.e = "ModelRetry"
          /\ tool_corrections < agent_retries => ~EndedByTool
    /\ tpc = "tool_exhausted" => tool_corrections = agent_retries

\* C14 (amended): a transport failure of a tool call is answered with
\* ModelRetry; the call ends the turn, in UnexpectedModelBehavior naming the
\* tool, exactly when that tool had already failed in the 2 steps before it,
\* and otherwise the turn goes on.  The budget of 2 corrective attempts is
\* per tool and counts failures in a row, so that one turn may grant more
\* than 2 corrective attempts.
C14_TwoCorrectionsInARowPerTool ==
    /\ \A t \in ToolNames : tool_retries[t] <= agent_retries
    /\ TransportFailed =>
          /\ last_call.out.e = "ModelRetry"
          /\ IF last_call.retry < agent_retries
             THEN ~EndedByTool
             ELSE tpc = "tool_exhausted" /\ result = ToolExhausted(last_call.tool)
    /\ tpc = "tool_exhausted" =>
          /\ last_call.out.e = "ModelRetry" /\ last_call.retry = agent_retries
          /\ tool_corrections >= agent_retries

\* The geocoder failed once and the forecast three times in a row: three
\* corrective attempts were granted before the turn ended.
C14_Witness ==
    /\ TransportFailed /\ tpc = "tool_exhausted"
    /\ last_call.tool = "get_weather_forecast"
    /\ last_call.remote.kind = "response" /\ last_call.remote.status_code = 500
    /\ tool_corrections = 3
    /\ result = ToolExhausted("get_weather_forecast")

\* C15: a call of get_historical_weather_data with a malformed start or end
\* date raises ModelRetry with the date-format message; no ValueError leaves
\* the turn; the turn goes on unless the tool had already failed in the 2
\* steps before, and then it ends in UnexpectedModelBehavior whose message
\* names the tool.
C15_BadDatesBecomeRetryFeedback ==
    BadDatesGiven =>
        /\ last_call.out = ModelRetry("Invalid date format, use YYYY-MM-DD: ValueError")
        /\ result.e # "ValueError"
        /\ IF last_call.retry < agent_retries
           THEN ~EndedByTool
           ELSE /\ tpc = "tool_exhausted"
                /\ result.e = "UnexpectedModelBehavior"
                /\ result.v = JStr("Tool 'get_historical_weather_data' exceeded "
                                   \o "max retries count of 2")

\* Malformed dates three times in a row.
C15_Witness ==
    /\ BadDatesGiven /\ last_call.retry = 2 /\ tool_corrections = 2
    /\ last_call.args.start_date = Jan01 /\ last_call.args.end_date = <<"a">>
    /\ tpc = "tool_exhausted"

\* C17 (as claimed): when the classifier call of validate_weather_topic
\* fails, the draft is not approved and the turn does not end before the
\* retries are used up.
C17_ClassifierFailureIsRetried ==
    (result.k = "raise" /\ result.e = "ClassifierError") =>
        /\ tpc # "approved"
        /\ retries >= agent_retries

\* C18 (as claimed): a forecast or historical call that issues a request for
\* a place comes after a geocode call of the same turn that returned that
\* place.
C18_GeocodeBeforeFetch ==
    (/\ last_call.tool \in {"get_weather_forecast", "get_historical_weather_data"}
     /\ last_call.sent # <<>>) =>
        last_call.args.name \in last_call.known

\* C21 (as claimed): a call of get_weather_forecast sends one request to the
\* forecast endpoint whose latitude, longitude and timezone are the caller's,
\* and whose forecast_days lies in 1..16 and is 7 when the caller gave none.
C21_ForecastRequestParams ==
    fn = "get_weather_forecast" =>
        /\ Len(http) = 1 /\ http[1].url = FORECAST_URL
        /\ http[1].params.latitude = arg.args.latitude
        /\ http[1].params.longitude = arg.args.longitude
        /\ http[1].params.timezone = arg.args.timezone
        /\ http[1].params.forecast_days \in 1..16
        /\ "forecast_days" \notin DOMAIN arg.args => http[1].params.forecast_days = 7

(***************************************************************************)
(* SpecRefusal: build_refusal_sse applied to bounded texts                 *)
(* (src/src/web.py:41-54).  uuid4() is a choice of the action.             *)
(***************************************************************************)
MaxWords == 2   \* words a generated refusal text is made of

RefusalWords == {"Sorry, weather only!", "test", " \"quoted\" ", "line\nbreak",
                 "data: ", "[DONE]"}

RECURSIVE JoinWords(_)
JoinWords(ws) == IF ws = <<>> THEN "" ELSE Head(ws) \o JoinWords(Tail(ws))

RefusalTexts == {JoinWords(ws) : ws \in SeqsUpTo(RefusalWords, MaxWords)}
                \cup {REFUSAL_MESSAGE}

InitRefusal ==
    /\ fn = "none" /\ arg \in RefusalTexts /\ ret = Return(None) /\ http = <<>>
    /\ GuardIdle /\ TurnIdle /\ ProcIdle

ApplyBuildRefusalSse ==
    /\ fn = "none"
    /\ fn' = "build_refusal_sse"
    /\ \E msg_id \in Uuids : ret' = Return(build_refusal_sse(arg, msg_id))
    /\ UNCHANGED <<arg, http, guardVars, turnVars, procVars>>

NextRefusal == ApplyBuildRefusalSse
SpecRefusal == InitRefusal /\ [][NextRefusal]_vars

\* The event types of a body, the sentinel being its own text.
EventTypes(frames) ==
    [i \in 1..Len(frames) |->
        IF frames[i].event.enc = "json" THEN frames[i].event.v.o.type.s
        ELSE frames[i].event.v.s]

\* C22: for any text, build_refusal_sse gives eight frames, each "data: "
\* + event + blank line, in the order start, start-step, text-start, one
\* text-delta with the whole text, text-end, finish-step, finish, [DONE];
\* the three text events carry one and the same identifier.
C22_RefusalEventSequence ==
    fn = "build_refusal_sse" =>
        /\ ret.k = "return"
        /\ EventTypes(ret.v) = <<"start", "start-step", "text-start", "text-delta",
                                 "text-end", "finish-step", "finish", "[DONE]">>
        /\ \A i \in 1..Len(ret.v) :
              /\ ret.v[i].prefix = "data: " /\ ret.v[i].suffix = "\n\n"
              /\ ret.v[i].event.enc = IF i = Len(ret.v) THEN "raw" ELSE "json"
        /\ ret.v[4].event.v.o.delta = JStr(arg)
        /\ ret.v[3].event.v.o.id = ret.v[4].event.v.o.id
        /\ ret.v[5].event.v.o.id = ret.v[4].event.v.o.id
        /\ ret.v[4].event.v.o.id.s \in Uuids
        /\ ret.v[7].event.v.o.finishReason = JStr("stop")

\* A text with a quote and a line break in it has been framed.
C22_Witness ==
    /\ fn = "build_refusal_sse"
    /\ arg = " \"quoted\" line\nbreak"
    /\ Len(ret.v) = 8
    /\ ret.v[4].event.v.o.delta = JStr(arg)

(***************************************************************************)
(* Claims about the order of a turn's attempts and its two retry budgets.  *)
(***************************************************************************)
\* The texts a retry message puts around the classifier's reason.
RetryAffixes == {"", "Your response is off-topic (",
                 "). You must only answer weather and climate questions. "
                 \o "If the user asked about something else, politely decline and "
                 \o "suggest a weather question."}
Contains(s, part) == \E pre \in RetryAffixes, post \in RetryAffixes : s = pre \o part \o post

\* C24: the attempts of a turn come one after the other: at most one draft is
\* without its verdict, and only while the turn is classifying it (or has
\* failed doing so); every draft but the latest has a verdict, on that very
\* draft, that was off-topic; and the feedback given before draft k+1
\* contains the reason of the verdict on draft k.
C24_AttemptsSequential ==
    /\ Len(drafts) - Len(verdicts) \in {0, 1}
    /\ tpc = "classifying" => Len(drafts) = Len(verdicts) + 1
    /\ Len(drafts) = Len(verdicts) + 1 => tpc \in {"classifying", "failed"}
    /\ \A k \in 1..(Len(drafts) - 1) :
          /\ k <= Len(verdicts) /\ k <= Len(feedback)
          /\ ~verdicts[k].check.is_weather_related
          /\ verdicts[k].prompt.text = drafts[k]
          /\ Contains(feedback[k].s, verdicts[k].check.reason)

\* A third draft is being classified after two rejections for different reasons.
C24_Witness ==
    /\ tpc = "classifying" /\ Len(drafts) = 3 /\ Len(feedback) = 2
    /\ verdicts[1].check.reason # verdicts[2].check.reason

\* The off-topic verdicts of the turn so far.
OffTopicVerdicts == {k \in 1..Len(verdicts) : ~verdicts[k].check.is_weather_related}

\* C25: the two budgets are separate.  The output retries consumed are the
\* off-topic verdicts, whatever number of tool corrections the turn has seen,
\* and the turn is exhausted exactly when they exceed the agent's retries; a
\* tool ends the turn only after its own failures in a row; a step that costs
\* a tool correction costs no output retry, and a step that costs an output
\* retry raises no tool's count.
C25_SeparateBudgets ==
    /\ [](/\ retries = Cardinality(OffTopicVerdicts)
          /\ tpc = "exhausted" <=> retries > agent_retries
          /\ tpc = "tool_exhausted" =>
                (last_call.retry = agent_retries /\ retries <= agent_retries))
    /\ [][/\ (tool_corrections' # tool_corrections \/ tpc' = "tool_exhausted")
                => retries' = retries
          /\ retries' # retries =>
                (tool_corrections' = tool_corrections
                 /\ \A t \in ToolNames : tool_retries'[t] <= tool_retries[t])]_vars

\* A turn that spent three tool corrections is approved at its third draft.
C25_Witness ==
    /\ tpc = "approved" /\ Len(drafts) = 3 /\ retries = agent_retries
    /\ tool_corrections = 3

(***************************************************************************)
(* SpecPair: calls of one TopicGuardMiddleware instance that run at the     *)
(* same time (src/src/web.py:57-113).  The instance holds self.app only;   *)
(* body, user_text, check, body_sent and response_body are locals of a     *)
(* call (body_sent and body are read by that call's replay_receive).  A    *)
(* step is what one call does between two awaits; the event loop           *)
(* interleaves the steps of the calls freely.  Every body arrives in        *)
(* MaxChunks pieces, so that the buffering loops of the calls interleave.   *)
(***************************************************************************)
MaxCalls == 2   \* calls in flight at once

Requests == 1..MaxCalls

\* Where a call keeps `body`: in its own frame.
BodyCell_on_instance(i) == <<"self", 0>>
BodyCell(i) == <<"call", i>>

Cells == {<<"call", i>> : i \in Requests} \cup {<<"self", 0>>}

PairTexts == << ChatRequest(<<Msg("user", <<PText("rain")>>)>>),
               ChatRequest(<<Msg("user", <<PText("joke")>>)>>),
               ChatRequest(<<Msg("assistant", <<PText("reply")>>)>>) >>

\* A call of __call__ with a POST /api/chat scope whose body arrives in k pieces.
Frame0(text, k) ==
    [pc |-> "call", stream |-> Stream(text, k, k), inbox |-> Stream(text, k, k),
     user_text |-> Return(None), guard |-> <<>>, response_body |-> <<>>,
     wire |-> <<>>, invoked |-> FALSE, body_sent |-> FALSE, appReads |-> <<>>,
     logged |-> 0]

InitPair ==
    /\ PureIdle /\ GuardIdle /\ TurnIdle
    /\ ended = <<>>
    /\ \E n \in [Requests -> DOMAIN PairTexts] :
          \* the calls are interchangeable: their bodies are taken in one order
          /\ \A i, j \in Requests : i <= j => n[i] <= n[j]
          /\ calls = [req  |-> [i \in Requests |-> Frame0(PairTexts[n[i]], MaxChunks)],
                      cell |-> [c \in Cells |-> <<>>]]

\* Call i goes on with frame f and `body` b.
Resume(i, f, b) ==
    calls' = [req  |-> [calls.req EXCEPT ![i] = f],
              cell |-> [calls.cell EXCEPT ![BodyCell(i)] = b]]

BodyOf(i) == calls.cell[BodyCell(i)]

\* __call__ enters _handle_chat: body = b"".
PairCall(i) ==
    /\ calls.req[i].pc = "call"
    /\ Resume(i, [calls.req[i] EXCEPT !.pc = "buffering"], <<>>)

\* Lines 97-107 for call i.
PairPassThrough(f) == [f EXCEPT !.pc = "app", !.invoked = TRUE, !.body_sent = FALSE]

\* One turn of the buffering loop of call i and, when the loop ends, the
\* extraction and the branch on user_text.
PairBufferChunk(i) ==
    LET f       == calls.req[i]
        message == IF f.inbox = <<>> THEN HttpDisconnect ELSE Head(f.inbox)
        f1      == [f EXCEPT !.inbox = IF f.inbox = <<>> THEN <<>> ELSE Tail(f.inbox)]
        b       == buffer(BodyOf(i), message)
        ut      == extract_last_user_text(b)
    IN /\ f.pc = "buffering"
       /\ IF MoreBody(message)
          THEN Resume(i, f1, b)
          ELSE IF ut.k = "raise"
          THEN Resume(i, [f1 EXCEPT !.pc = "raised", !.user_text = ut], b)
          ELSE IF Truthy(ut.v)
          THEN Resume(i, [f1 EXCEPT !.pc = "guard", !.user_text = ut,
                              !.guard = <<[prompt |-> GuardPrompt(ut.v),
                                           outcome |-> "pending"]>>], b)
          ELSE Resume(i, PairPassThrough([f1 EXCEPT !.user_text = ut]), b)

\* guard_agent.run of call i returns a verdict or raises.
PairGuard(i) ==
    LET f == calls.req[i] IN
    /\ f.pc = "guard"
    /\ \E o \in {"on-topic", "off-topic", "raised"} :
         LET g == [f EXCEPT !.guard[1].outcome = o] IN
         CASE o = "on-topic"  -> Resume(i, PairPassThrough(g), BodyOf(i))
           [] o = "off-topic" ->
                \E id \in Uuids :
                    Resume(i, [g EXCEPT !.pc = "send_start",
                                   !.response_body = build_refusal_sse(REFUSAL_MESSAGE, id)],
                           BodyOf(i))
           [] o = "raised"    ->
                Resume(i, PairPassThrough([g EXCEPT !.logged = @ + 1]), BodyOf(i))

\* A send of call i's refusal succeeds, or raises and is caught.
PairSend(i) ==
    LET f == calls.req[i] IN
    /\ f.pc \in {"send_start", "send_body"}
    /\ \/ /\ f.pc = "send_start"
          /\ Resume(i, [f EXCEPT !.pc = "send_body",
                            !.wire = Append(@, ResponseStart(200, _SSE_HEADERS))],
                    BodyOf(i))
       \/ /\ f.pc = "send_body"
          /\ Resume(i, [f EXCEPT !.pc = "done",
                            !.wire = Append(@, ResponseBody(f.response_body))],
                    BodyOf(i))
       \/ Resume(i, PairPassThrough([f EXCEPT !.logged = @ + 1]), BodyOf(i))

\* The inner application, invoked by call i, awaits replay_receive for its
\* first read (its later reads are those of the one-request model).
PairAppReceive(i) ==
    LET f == calls.req[i] IN
    /\ f.pc = "app"
    /\ f.appReads = <<>>
    /\ IF ~f.body_sent
       THEN Resume(i, [f EXCEPT !.body_sent = TRUE,
                           !.appReads = Append(@, HttpRequest(BodyOf(i), FALSE))],
                   BodyOf(i))
       ELSE Resume(i, [f EXCEPT !.appReads = Append(@, IF f.inbox = <<>> THEN HttpDisconnect
                                                        ELSE Head(f.inbox)),
                           !.inbox = IF f.inbox = <<>> THEN <<>> ELSE Tail(f.inbox)],
                   BodyOf(i))

\* The inner application returns, and with it call i.
PairAppReturns(i) ==
    /\ calls.req[i].pc = "app"
    /\ Resume(i, [calls.req[i] EXCEPT !.pc = "done"], BodyOf(i))

NextPair ==
    /\ \E i \in Requests :
          \/ PairCall(i)
          \/ PairBufferChunk(i)
          \/ PairGuard(i)
          \/ PairSend(i)
          \/ PairAppReceive(i)
          \/ PairAppReturns(i)
    /\ UNCHANGED <<pureVars, guardVars, turnVars, ended>>

SpecPair == InitPair /\ [][NextPair]_vars

\* The body the client of call i sent, and the verdict call i got.
OwnBody(i)    == ConcatBodies(calls.req[i].stream)
OwnVerdict(i) == IF calls.req[i].guard = <<>> THEN "none"
                 ELSE calls.req[i].guard[1].outcome

\* A send of call i's refusal raised.
SendFailed(i) == OwnVerdict(i) = "off-topic" /\ calls.req[i].logged > 0

\* C26: whatever the interleaving, a call's refusal is sent only on its own
\* off-topic verdict, which was asked for the text of its own body; a call
\* whose own verdict is on-topic is passed on and sends nothing; the body the
\* inner application gets from a call's replay is that call's own body; and
\* two finished calls with the same body and verdict, none of whose sends
\* raised, have the same outcome.
C26_NoCrosstalk ==
    /\ \A i \in Requests :
         LET f == calls.req[i] IN
         /\ f.wire # <<>> => OwnVerdict(i) = "off-topic"
         /\ f.guard # <<>> =>
               f.guard[1].prompt = GuardPrompt(extract_last_user_text(OwnBody(i)).v)
         /\ OwnVerdict(i) = "on-topic" => (f.wire = <<>> /\ f.invoked)
         /\ f.appReads # <<>> => f.appReads[1] = HttpRequest(OwnBody(i), FALSE)
    /\ \A i, j \in Requests :
         LET f == calls.req[i]
             g == calls.req[j]
         IN (/\ f.pc = "done" /\ g.pc = "done"
             /\ OwnBody(i) = OwnBody(j) /\ OwnVerdict(i) = OwnVerdict(j)
             /\ ~SendFailed(i) /\ ~SendFailed(j))
            => (f.invoked = g.invoked /\ Len(f.wire) = Len(g.wire))

\* One call is in the middle of its refusal while another, with another body,
\* has been passed on and its body replayed.
C26_Witness ==
    /\ calls.req[1].pc = "send_body" /\ OwnVerdict(1) = "off-topic"
    /\ calls.req[2].pc = "app" /\ OwnVerdict(2) = "on-topic"
    /\ OwnBody(1) # OwnBody(2)
    /\ Len(calls.req[2].appReads) = 1

(***************************************************************************)
(* SpecTurns: turns of the agent one after the other.  `agent` is one      *)
(* module-level object (src/src/agent.py:49-73) that holds the             *)
(* configuration; neither it nor the validator, the tools or the           *)
(* middleware keep a count between two runs: the counts live in the run.   *)
(***************************************************************************)
MaxTurns == 2   \* turns in a row

TurnOver == tpc \in {"approved", "exhausted", "tool_exhausted", "failed", "cancelled"}

\* The task awaiting agent.run is cancelled while the run awaits the
\* Responder, a tool or the classifier: CancelledError leaves the run.
Cancel ==
    /\ tpc \in {"drafting", "classifying"}
    /\ tpc' = "cancelled"
    /\ result' = Raise("CancelledError")
    /\ UNCHANGED <<retries, drafts, verdicts, feedback, toolVars>>
    /\ UNCHANGED <<pureVars, guardVars, procVars>>

\* How a turn ended; a cancellation that came after a retry prompt is told
\* from one that came before any.
Ending == IF tpc = "cancelled" /\ (retries > 0 \/ tool_corrections > 0)
          THEN "cancelled in a retry" ELSE tpc

\* The next run with the counts of the run before it.
StartTurn_keeps_counts ==
    /\ TurnOver
    /\ Len(ended) < MaxTurns - 1
    /\ ended' = Append(ended, Ending)
    /\ tpc' = "drafting" /\ drafts' = <<>> /\ verdicts' = <<>>
    /\ feedback' = <<>> /\ result' = Pending
    /\ last_call' = NoCall /\ resolved' = {}
    /\ UNCHANGED <<retries, tool_retries, tool_corrections>>
    /\ UNCHANGED <<pureVars, guardVars, calls>>

\* agent.run is called for the next turn: a new run with its own state.
StartTurn ==
    /\ TurnOver
    /\ Len(ended) < MaxTurns - 1
    /\ ended' = Append(ended, Ending)
    /\ tpc' = "drafting" /\ retries' = 0 /\ drafts' = <<>> /\ verdicts' = <<>>
    /\ feedback' = <<>> /\ result' = Pending
    /\ tool_retries' = NoRetries /\ tool_corrections' = 0
    /\ last_call' = NoCall /\ resolved' = {}
    /\ UNCHANGED <<pureVars, guardVars, calls>>

NextTurns ==
    \/ Draft
    \/ Classify
    \/ ClassifierFails
    \/ CallGetLocationCoordinates
    \/ Cancel
    \/ StartTurn
SpecTurns == InitTurn /\ [][NextTurns]_vars

\* A turn has begun and the Responder has not yet done anything.
AtTurnStart == tpc = "drafting" /\ drafts = <<>> /\ last_call = NoCall

\* C27: a turn begins with no consumed output retry and no consumed tool
\* retry, and with no feedback or verdict of an earlier turn, however the turn
\* before it ended; and the output retries consumed at any time are the
\* off-topic verdicts of the current turn alone.
C27_RetryStateIsTurnLocal ==
    /\ AtTurnStart => /\ retries = 0 /\ tool_retries = NoRetries
                      /\ tool_corrections = 0
                      /\ feedback = <<>> /\ verdicts = <<>>
    /\ retries = Cardinality(OffTopicVerdicts)

\* A second turn begins after a turn that was cancelled in a retry.
C27_Witness ==
    /\ AtTurnStart /\ Len(ended) = 1
    /\ ended[1] = "cancelled in a retry"

(***************************************************************************)
(* Claims about what the middleware intercepts and how often it asks the   *)
(* classifier.                                                             *)
(***************************************************************************)
\* The request is an HTTP POST to /api/chat.
IsChatPost ==
    /\ scope.type = "http"
    /\ scope.method = "POST"
    /\ scope.path = "/api/chat"

\* C28: a request that is not an HTTP POST to /api/chat is given to the inner
\* application at once, with the scope, receive and send the middleware got:
\* the middleware reads none of its body, asks the classifier nothing and sends
\* nothing; and only for an HTTP POST to /api/chat does the middleware read,
\* ask, send or replay.
C28_OnlyChatPostIntercepted ==
    /\ (~IsChatPost /\ pc # "call") =>
          /\ app = <<[scope |-> scope, receive |-> "receive", send |-> "send"]>>
          /\ received = <<>> /\ body = <<>> /\ guard = <<>>
          /\ MwSent = <<>> /\ logged = 0 /\ exc = "none"
    /\ (\/ received # <<>> \/ guard # <<>> \/ MwSent # <<>>
        \/ \E i \in 1..Len(app) : app[i].receive # "receive") => IsChatPost

\* A GET to /api/chat has gone straight to the inner application, which has
\* read the request itself.
C28_Witness ==
    /\ scope = [type |-> "http", method |-> "GET", path |-> "/api/chat"]
    /\ pc = "done" /\ Len(app) = 1 /\ Len(appReads) >= 2

\* The response starts on the wire, whoever sent them.
ResponseStarts == {i \in 1..Len(wire) : wire[i].msg.type = "http.response.start"}

\* C29 (as claimed): for an intercepted request the middleware sends the
\* refusal or invokes the inner application, never both, and a finished request
\* has had one of the two; after an off-topic verdict the inner application is
\* not invoked and no second response start is sent, also when a send of the
\* refusal fails.
C29_RefusalOrAppNeverBoth ==
    IsChatPost =>
        /\ ~(MwSent # <<>> /\ app # <<>>)
        /\ pc = "done" => (Len(MwSent) = 2 \/ app # <<>>)
        /\ LastOutcome = "off-topic" => (app = <<>> /\ Cardinality(ResponseStarts) <= 1)

\* What extract_last_user_text gives for the chunks the middleware received.
ExtractedText == extract_last_user_text(ConcatBodies(received))

\* C30: the input guard asks the classifier at most once per request; once the
\* body is buffered it has asked exactly when the text extracted from the
\* body is non-empty, and about that text; it asks only after the last chunk
\* of the body has arrived and while the inner application is not yet invoked;
\* and an answered or failed call is never followed by another.
C30_ClassifierAskedAtMostOnce ==
    /\ [](/\ Len(guard) <= 1
          /\ pc \notin {"call", "buffering"} =>
                (guard # <<>> <=> (/\ IsChatPost
                                   /\ ExtractedText.k = "return"
                                   /\ Truthy(ExtractedText.v)))
          /\ guard # <<>> =>
                /\ guard[1].prompt = GuardPrompt(ExtractedText.v)
                /\ received # <<>> /\ ~MoreBody(received[Len(received)])
                /\ body = ConcatBodies(received)
          /\ (guard # <<>> /\ guard[1].outcome = "pending") => app = <<>>)
    /\ [][(guard # <<>> /\ guard[1].outcome # "pending") => guard' = guard]_vars

\* The classifier's one call failed for a body that came in two chunks, and
\* the request has finished.
C30_Witness ==
    /\ Len(guard) = 1 /\ guard[1].outcome = "raised"
    /\ Len(received) = 2 /\ pc = "done"

====
